---- MODULE Spec2Model ----
(***************************************************************************)
(* Milestone maintainer (prow/plugins/milestonemaintainer): the policy     *)
(* engine that classifies an issue of a release milestone, the grace       *)
(* period tracker, the notification codec, and the reconciliation run      *)
(* (maintainIssue) that applies the decision to the tracker call by call.  *)
(*                                                                         *)
(* Time is a discrete clock; one run is short with respect to one clock    *)
(* unit, so the clock advances only between runs.  Day is the number of    *)
(* clock units in 24 hours.                                                *)
(***************************************************************************)
EXTENDS Integers, Sequences, FiniteSets, TLC

\* ---------------------------------------------------------------- bounds
MaxTime == 3
MaxRuns == 2
MaxFailures == 1
MaxEvents == 2
MaxLabels == 3
MaxBody == 5

\* ------------------------------------------------------- configuration
Day == 2
LabelGracePeriod == 1
ApprovalGracePeriod == 2
WarningInterval == 2
SlushUpdateInterval == 2
FreezeUpdateInterval == 2

milestoneModeDev == "dev"
milestoneModeSlush == "slush"
milestoneModeFreeze == "freeze"
milestoneModes == {milestoneModeDev, milestoneModeSlush, milestoneModeFreeze}

\* ------------------------------------------------------------ constants
milestoneNotifierName == "MilestoneNotifier"

milestoneCurrent == "Current"
milestoneNeedsLabeling == "NeedsLabeling"
milestoneNeedsApproval == "NeedsApproval"
milestoneNeedsAttention == "NeedsAttention"
milestoneNeedsRemoval == "NeedsRemoval"
milestoneStates ==
    {milestoneCurrent, milestoneNeedsLabeling, milestoneNeedsApproval,
     milestoneNeedsAttention, milestoneNeedsRemoval}

milestoneLabelsIncompleteLabel == "milestone/incomplete-labels"
milestoneNeedsApprovalLabel == "milestone/needs-approval"
milestoneNeedsAttentionLabel == "milestone/needs-attention"
milestoneRemovedLabel == "milestone/removed"

statusApprovedLabel == "status/approved-for-milestone"
statusInProgressLabel == "status/in-progress"
blockerLabel == "priority/critical-urgent"

\* The state labels, in the order updateMilestoneStateLabel walks them.
milestoneStateLabels ==
    <<milestoneLabelsIncompleteLabel, milestoneNeedsApprovalLabel,
      milestoneNeedsAttentionLabel, milestoneRemovedLabel>>

StateLabelSet == {milestoneStateLabels[i] : i \in DOMAIN milestoneStateLabels}

\* The keys of kindMap and priorityMap.
kindMap == {"kind/bug", "kind/feature", "kind/cleanup"}
priorityMap ==
    {blockerLabel, "priority/important-soon", "priority/important-longterm"}

\* The labels of the model's universe that carry the prefix sigLabelPrefix.
SigLabels == {"sig/foo"}

\* The labels a human may have put on the object: kind and sig labels (both
\* or neither), at most one priority label, and any of the status labels.
InitHumanLabels ==
    {k \cup p \cup a :
        k \in {{}, {"kind/bug", "sig/foo"}},
        p \in {{}, {blockerLabel}, {"priority/important-soon"}},
        a \in SUBSET {statusApprovedLabel, statusInProgressLabel}}

botName == "k8s-bot"
humanName == "user"

\* milestoneStateConfigs: the label, title and warnOnInterval of a state.
StateLabel(state) ==
    CASE state = milestoneCurrent -> ""
      [] state = milestoneNeedsLabeling -> milestoneLabelsIncompleteLabel
      [] state = milestoneNeedsApproval -> milestoneNeedsApprovalLabel
      [] state = milestoneNeedsAttention -> milestoneNeedsAttentionLabel
      [] state = milestoneNeedsRemoval -> milestoneRemovedLabel

StateTitle(state) ==
    CASE state = milestoneCurrent -> "Milestone Issue **Current**"
      [] state = milestoneNeedsLabeling -> "Milestone Issue Labels **Incomplete**"
      [] state = milestoneNeedsApproval -> "Milestone Issue **Needs Approval**"
      [] state = milestoneNeedsAttention -> "Milestone Issue **Needs Attention**"
      [] state = milestoneNeedsRemoval -> "Milestone **Removed** From Issue"

WarnOnIntervalAlways(state) == TRUE

\* milestoneStateConfigs[state].warnOnInterval.
WarnOnInterval(state) ==
    state \in {milestoneNeedsLabeling, milestoneNeedsApproval, milestoneNeedsAttention}

\* ------------------------------------------------------ label validator

uniqueLabelNameFirstMatch(labels, labelMap) ==
    LET m == labels \cap labelMap
    IN  IF m = {} THEN [name |-> "", err |-> FALSE]
        ELSE [name |-> CHOOSE l \in m : TRUE, err |-> FALSE]

\* uniqueLabelName: the one label of labelMap present, "" when none, an
\* error when more than one.
uniqueLabelName(labels, labelMap) ==
    LET m == labels \cap labelMap
    IN  IF Cardinality(m) > 1 THEN [name |-> "", err |-> TRUE]
        ELSE IF m = {} THEN [name |-> "", err |-> FALSE]
        ELSE [name |-> CHOOSE l \in m : TRUE, err |-> FALSE]

sigLabelNames(labels) == labels \cap SigLabels

\* checkLabels: kind, priority, sigs and the errors in the order the code
\* appends them (kind, priority, sig owner).
checkLabels(labels) ==
    LET k == uniqueLabelName(labels, kindMap)
        p == uniqueLabelName(labels, priorityMap)
        s == sigLabelNames(labels)
        ke == IF k.err \/ k.name = "" THEN <<"kind">> ELSE <<>>
        pe == IF p.err \/ p.name = "" THEN <<"priority">> ELSE <<>>
        se == IF s = {} THEN <<"sig owner">> ELSE <<>>
    IN  [kindLabel |-> k.name, priorityLabel |-> p.name, sigLabels |-> s,
         labelErrors |-> ke \o pe \o se]

\* ---------------------------------------- label validator, label by label
\* checkLabels on the issue's labels in the order the tracker lists them,
\* with the error messages it formats.  A string is spelled as the sequence
\* of its parts, so that prefixes and the order of strings are computed.

sigLabelPrefix == "sig/"

Spell(s) ==
    CASE s = "" -> <<>>
      [] s = "sig/" -> <<"sig", "/">>
      [] s = "sig/foo" -> <<"sig", "/", "foo">>
      [] s = "sig/bar" -> <<"sig", "/", "bar">>
      [] s = "sig" -> <<"sig">>
      [] s = "baz" -> <<"baz">>
      [] s = "area/sig/foo" -> <<"area", "/", "sig", "/", "foo">>
      [] s = "kind/bug" -> <<"kind", "/", "bug">>
      [] s = "kind/feature" -> <<"kind", "/", "feature">>
      [] s = "kind/cleanup" -> <<"kind", "/", "cleanup">>
      [] s = "priority/critical-urgent" -> <<"priority", "/", "critical-urgent">>
      [] s = "priority/important-soon" -> <<"priority", "/", "important-soon">>
      [] s = "priority/important-longterm" -> <<"priority", "/", "important-longterm">>

\* The parts of the strings, in the byte order of their first characters;
\* BQ is the backquote of markdown's inline code.
PartOrder ==
    <<" or ", ", ", "/", "BQ", "area", "bar", "baz", "bug", "cleanup", "critical-urgent",
      "feature", "foo", "important-longterm", "important-soon", "kind",
      "priority", "sig">>

\* The order of Go strings (sort.Strings).
RECURSIVE StringLess(_, _)
StringLess(a, b) ==
    IF a = <<>> THEN b # <<>>
    ELSE IF b = <<>> THEN FALSE
    ELSE IF a[1] = b[1] THEN StringLess(Tail(a), Tail(b))
    ELSE LET rank(part) == CHOOSE i \in DOMAIN PartOrder : PartOrder[i] = part
         IN  rank(a[1]) < rank(b[1])

\* strings.HasPrefix.
HasPrefix(s, prefix) ==
    /\ Len(Spell(prefix)) <= Len(Spell(s))
    /\ SubSeq(Spell(s), 1, Len(Spell(prefix))) = Spell(prefix)

\* strings.Join.
RECURSIVE Join(_, _)
Join(strs, sep) ==
    IF strs = <<>> THEN <<>>
    ELSE IF Len(strs) = 1 THEN strs[1]
    ELSE strs[1] \o <<sep>> \o Join(Tail(strs), sep)

quoteLabel(label) ==
    IF Len(Spell(label)) > 0 THEN <<"BQ">> \o Spell(label) \o <<"BQ">> ELSE Spell(label)

formatLabelStringUnsorted(keys) ==
    LET labelList == [i \in DOMAIN keys |-> quoteLabel(keys[i])]
        maxIndex == Len(labelList) - 1
    IN  IF maxIndex = 0 THEN labelList[1]
        ELSE Join(SubSeq(labelList, 1, maxIndex), ", ") \o <<" or ">> \o labelList[maxIndex + 1]

\* formatLabelString on the keys of a map in the order the map's iteration
\* yields them.
formatLabelString(keys) ==
    LET labelList == SortSeq([i \in DOMAIN keys |-> quoteLabel(keys[i])], StringLess)
        maxIndex == Len(labelList) - 1
    IN  IF maxIndex = 0 THEN labelList[1]
        ELSE Join(SubSeq(labelList, 1, maxIndex), ", ") \o <<" or ">> \o labelList[maxIndex + 1]

\* uniqueLabelName, walking the labels in order.
uniqueLabelNameOf(labelSeq, labelMap) ==
    LET hits == SelectSeq(labelSeq, LAMBDA l : l \in labelMap)
    IN  IF Len(hits) > 1 THEN [name |-> "", err |-> TRUE]
        ELSE IF Len(hits) = 1 THEN [name |-> hits[1], err |-> FALSE]
        ELSE [name |-> "", err |-> FALSE]

\* sigLabelNames, walking the labels in order.
sigLabelNamesOf(labelSeq) ==
    SelectSeq(labelSeq, LAMBDA l : HasPrefix(l, sigLabelPrefix))

\* One message of labelErrors: the requirement it names and what it lists.
LabelError(requirement, listed) == [requirement |-> requirement, listed |-> listed]

\* checkLabels on the labels in order; iter gives the iteration orders of
\* kindMap and priorityMap.
checkLabelsOf(labelSeq, iter) ==
    LET k == uniqueLabelNameOf(labelSeq, kindMap)
        p == uniqueLabelNameOf(labelSeq, priorityMap)
        s == sigLabelNamesOf(labelSeq)
        ke == IF k.err \/ k.name = ""
              THEN <<LabelError("kind", formatLabelString(iter.kind))>> ELSE <<>>
        pe == IF p.err \/ p.name = ""
              THEN <<LabelError("priority", formatLabelString(iter.priority))>> ELSE <<>>
        se == IF Len(s) = 0
              THEN <<LabelError("sig owner", quoteLabel(sigLabelPrefix))>> ELSE <<>>
    IN  [kindLabel |-> k.name, priorityLabel |-> p.name, sigLabels |-> s,
         labelErrors |-> ke \o pe \o se]

NoIteration == [kind |-> <<>>, priority |-> <<>>]

NotChecked == [kindLabel |-> "", priorityLabel |-> "", sigLabels |-> <<>>,
               labelErrors |-> <<"not checked">>]

\* --------------------------------------------------- grace period tracker

\* A duration that may be nil.
NilDuration == [known |-> FALSE, value |-> 0]
Duration(v) == [known |-> TRUE, value |-> v]

IsBotLabeled(event, labelName) ==
    /\ event.event = "labeled"
    /\ event.actor = botName
    /\ event.label = labelName

labelLastCreatedAtAnyActor(evs, labelName) ==
    LET matchedEvents ==
            SelectSeq(evs, LAMBDA ev : ev.event = "labeled" /\ ev.label = labelName)
    IN  IF Len(matchedEvents) > 0
        THEN Duration(matchedEvents[Len(matchedEvents)].createdAt)
        ELSE NilDuration

\* labelLastCreatedAt: the creation time of the last listed event in which
\* the bot applied labelName; nil when there is none.
labelLastCreatedAt(evs, labelName) ==
    LET matchedEvents == SelectSeq(evs, LAMBDA ev : IsBotLabeled(ev, labelName))
    IN  IF Len(matchedEvents) > 0
        THEN Duration(matchedEvents[Len(matchedEvents)].createdAt)
        ELSE NilDuration

gracePeriodStartFromHistory(issueLabels, evs, labelName, defaultStart) ==
    LET last == labelLastCreatedAt(evs, labelName)
    IN  IF last.known THEN last ELSE Duration(defaultStart)

\* gracePeriodStart: defaultStart when the label is not set on the event's
\* issue, else the last application of the label by the bot.
gracePeriodStart(issueLabels, evs, labelName, defaultStart) ==
    IF labelName \notin issueLabels
    THEN Duration(defaultStart)
    ELSE labelLastCreatedAt(evs, labelName)

\* Whether gracePeriodRemaining reads the tracker (ListIssueEvents, BotName).
ReadsEvents(issueLabels, labelName, isBlocker) ==
    ~isBlocker /\ labelName \in issueLabels

gracePeriodRemainingNoBypass(issueLabels, evs, labelName, gracePeriod, defaultStart, isBlocker, t) ==
    LET tempStart == gracePeriodStart(issueLabels, evs, labelName, defaultStart)
    IN  IF ~tempStart.known THEN NilDuration
        ELSE Duration((tempStart.value + gracePeriod) - t)

gracePeriodRemainingFromStart(issueLabels, evs, labelName, gracePeriod, defaultStart, isBlocker, t) ==
    IF isBlocker THEN NilDuration
    ELSE LET tempStart == gracePeriodStart(issueLabels, evs, labelName, defaultStart)
         IN  IF ~tempStart.known THEN NilDuration
             ELSE Duration(tempStart.value - t)

\* gracePeriodRemaining: -time.Since(start.Add(gracePeriod)), nil for a
\* blocker and when the start is unknown.  t is time.Now().
gracePeriodRemaining(issueLabels, evs, labelName, gracePeriod, defaultStart, isBlocker, t) ==
    IF isBlocker THEN NilDuration
    ELSE LET tempStart == gracePeriodStart(issueLabels, evs, labelName, defaultStart)
         IN  IF ~tempStart.known THEN NilDuration
             ELSE Duration((tempStart.value + gracePeriod) - t)

\* durationToMaxDays: floor(hours / 24).
durationToMaxDays(duration) == duration \div Day

\* The removal warning of warnUnapproved / warnIncompleteLabels: empty when
\* removeAfter is nil, else the sentence naming durationToMaxDays(removeAfter).
RemovalWarning(removeAfter) ==
    IF removeAfter.known
    THEN [present |-> TRUE, days |-> durationToMaxDays(removeAfter.value)]
    ELSE [present |-> FALSE, days |-> 0]

NoWarning == [present |-> FALSE, days |-> 0]

\* ---------------------------------------------------------- policy engine

RemoveSections == {"removeUnapproved", "removeNonBlocker", "removeIncompleteLabels"}

NoSummary == [kindLabel |-> "", priorityLabel |-> "", sigLabels |-> {}]

\* The issueChangeConfig the engine starts from.  removeAfter and graceLabel
\* record the local removeAfter and the label it was computed against.
NewIcc ==
    [state |-> "", enabledSections |-> {},
     incompleteLabelsRemovalWarning |-> NoWarning,
     unapprovedRemovalWarning |-> NoWarning,
     labelErrors |-> <<>>, summary |-> NoSummary,
     removeAfter |-> NilDuration, graceLabel |-> ""]

enableSection(icc, sectionName) ==
    [icc EXCEPT !.enabledSections = @ \cup {sectionName}]

summarizeLabels(icc, kindLabel, priorityLabel, sigLabels) ==
    [enableSection(icc, "summarizeLabels") EXCEPT
        !.state = milestoneCurrent,
        !.summary = [kindLabel |-> kindLabel, priorityLabel |-> priorityLabel,
                     sigLabels |-> sigLabels]]

warnUnapprovedNoWarning(icc, removeAfter) ==
    [enableSection(icc, "warnUnapproved") EXCEPT
        !.state = milestoneNeedsApproval,
        !.unapprovedRemovalWarning = NoWarning]

warnUnapproved(icc, removeAfter) ==
    [enableSection(icc, "warnUnapproved") EXCEPT
        !.state = milestoneNeedsApproval,
        !.unapprovedRemovalWarning = RemovalWarning(removeAfter)]

removeUnapproved(icc) ==
    [enableSection(icc, "removeUnapproved") EXCEPT !.state = milestoneNeedsRemoval]

removeNonBlockerKeepState(icc) == enableSection(icc, "removeNonBlocker")

removeNonBlocker(icc) ==
    [enableSection(icc, "removeNonBlocker") EXCEPT !.state = milestoneNeedsRemoval]

warnMissingInProgress(icc) ==
    [enableSection(icc, "warnMissingInProgress") EXCEPT !.state = milestoneNeedsAttention]

warnIncompleteLabelsNoWarning(icc, removeAfter, labelErrors) ==
    [enableSection(icc, "warnIncompleteLabels") EXCEPT
        !.state = milestoneNeedsLabeling,
        !.incompleteLabelsRemovalWarning = NoWarning,
        !.labelErrors = labelErrors]

warnIncompleteLabels(icc, removeAfter, labelErrors) ==
    [enableSection(icc, "warnIncompleteLabels") EXCEPT
        !.state = milestoneNeedsLabeling,
        !.incompleteLabelsRemovalWarning = RemovalWarning(removeAfter),
        !.labelErrors = labelErrors]

removeIncompleteLabels(icc, labelErrors) ==
    [enableSection(icc, "removeIncompleteLabels") EXCEPT
        !.state = milestoneNeedsRemoval,
        !.labelErrors = labelErrors]

NotExpiredStrict(removeAfter) == ~removeAfter.known \/ removeAfter.value > 0

\* The callers' test "removeAfter == nil || *removeAfter >= 0".
NotExpired(removeAfter) == ~removeAfter.known \/ removeAfter.value >= 0

StatusNotRequiredNever(m) == FALSE

\* "Status and updates are not required for dev mode".
StatusNotRequired(m) == m = milestoneModeDev

\* The grace-period read of issueChangeConfig, when it makes one: the state
\* label it is computed against ("" when gracePeriodRemaining is not called).
GraceLabel(issueLabels) ==
    IF checkLabels(issueLabels).labelErrors = <<>>
    THEN IF statusApprovedLabel \notin issueLabels /\ blockerLabel \notin issueLabels
         THEN milestoneNeedsApprovalLabel
         ELSE ""
    ELSE milestoneLabelsIncompleteLabel

\* Whether issueChangeConfig lists the issue's events (a call that may fail).
IccReadsEvents(issueLabels) ==
    /\ GraceLabel(issueLabels) # ""
    /\ ReadsEvents(issueLabels, GraceLabel(issueLabels), blockerLabel \in issueLabels)

\* Whether issueChangeConfig reads the mode: only past the label and the
\* approval checks.
ReadsMode(issueLabels) ==
    checkLabels(issueLabels).labelErrors = <<>> /\ statusApprovedLabel \in issueLabels

\* issueChangeConfig on the event's issue labels, the listed events, the
\* mode of the issue's milestone and time.Now().
issueChangeConfig(issueLabels, evs, m, t) ==
    LET isBlocker == blockerLabel \in issueLabels
        chk == checkLabels(issueLabels)
    IN  IF chk.labelErrors = <<>>
        THEN LET icc1 == summarizeLabels(NewIcc, chk.kindLabel, chk.priorityLabel, chk.sigLabels)
             IN  IF statusApprovedLabel \notin issueLabels
                 THEN IF isBlocker
                      THEN warnUnapproved(icc1, NilDuration)
                      ELSE LET removeAfter ==
                                   gracePeriodRemaining(issueLabels, evs, milestoneNeedsApprovalLabel,
                                                        ApprovalGracePeriod, t, FALSE, t)
                               icc2 == [icc1 EXCEPT !.removeAfter = removeAfter,
                                                    !.graceLabel = milestoneNeedsApprovalLabel]
                           IN  IF NotExpired(removeAfter)
                               THEN warnUnapproved(icc2, removeAfter)
                               ELSE removeUnapproved(icc2)
                 ELSE IF StatusNotRequired(m)
                 THEN icc1
                 ELSE IF m = milestoneModeFreeze /\ ~isBlocker
                 THEN removeNonBlocker(icc1)
                 ELSE IF statusInProgressLabel \notin issueLabels
                 THEN warnMissingInProgress(icc1)
                 ELSE icc1
        ELSE LET removeAfter ==
                     gracePeriodRemaining(issueLabels, evs, milestoneLabelsIncompleteLabel,
                                          LabelGracePeriod, t, isBlocker, t)
                 icc2 == [NewIcc EXCEPT !.removeAfter = removeAfter,
                                        !.graceLabel = milestoneLabelsIncompleteLabel]
             IN  IF NotExpired(removeAfter)
                 THEN warnIncompleteLabels(icc2, removeAfter, chk.labelErrors)
                 ELSE removeIncompleteLabels(icc2, chk.labelErrors)

messageBodyRenderAll(icc) ==
    [sections |-> icc.enabledSections,
     onlySummary |-> icc.state = milestoneCurrent,
     unapprovedRemovalWarning |-> icc.unapprovedRemovalWarning,
     incompleteLabelsRemovalWarning |-> icc.incompleteLabelsRemovalWarning,
     labelErrors |-> icc.labelErrors,
     summary |-> icc.summary]

\* messageBody: the sections rendered (an issue that will be removed shows
\* only its remove* sections) and the template arguments they print.
messageBody(icc) ==
    LET rendered == {s \in icc.enabledSections :
                        icc.state # milestoneNeedsRemoval \/ s \in RemoveSections}
    IN  [sections |-> rendered,
         onlySummary |-> icc.state = milestoneCurrent,
         unapprovedRemovalWarning |->
             IF "warnUnapproved" \in rendered THEN icc.unapprovedRemovalWarning ELSE NoWarning,
         incompleteLabelsRemovalWarning |->
             IF "warnIncompleteLabels" \in rendered
             THEN icc.incompleteLabelsRemovalWarning ELSE NoWarning,
         labelErrors |->
             IF {"warnIncompleteLabels", "removeIncompleteLabels"} \cap rendered # {}
             THEN icc.labelErrors ELSE <<>>,
         summary |-> IF "summarizeLabels" \in rendered THEN icc.summary ELSE NoSummary]

EmptyMessage == messageBody(NewIcc)

\* ------------------------------------------------------ notification codec

\* A text is its content and whether white space surrounds it.
Text(body, padded) == [body |-> body, padded |-> padded]
TrimSpace(text) == [text EXCEPT !.padded = FALSE]

ToUpper(name) ==
    CASE name = "MilestoneNotifier" -> "MILESTONENOTIFIER"
      [] name = "MILESTONENOTIFIER" -> "MILESTONENOTIFIER"
      [] name = "OtherNotifier" -> "OTHERNOTIFIER"
      [] name = "OTHERNOTIFIER" -> "OTHERNOTIFIER"
      [] OTHER -> name

NoNotification ==
    [Name |-> "", Arguments |-> Text("", FALSE), Context |-> Text(EmptyMessage, FALSE)]

\* NewNotification: the notification of a name, a title and a message, in
\* the form ParseNotification returns.
NewNotification(name, arguments, context) ==
    [Name |-> ToUpper(name), Arguments |-> TrimSpace(arguments),
     Context |-> TrimSpace(context)]

\* A comment body that is no notification: it starts with no [NAME] token.
PlainBody == [name |-> "", arguments |-> Text("", FALSE), context |-> Text(EmptyMessage, FALSE)]

\* Notification.String: "[" + ToUpper(Name) + "] " + args + "\n\n" + context,
\* as the three fields the regular expression reads back.
NotificationString(n) ==
    [name |-> ToUpper(n.Name), arguments |-> TrimSpace(n.Arguments),
     context |-> TrimSpace(n.Context)]

ParseNotificationNoContext(body) ==
    IF body.name = "" THEN NoNotification
    ELSE [Name |-> ToUpper(body.name), Arguments |-> TrimSpace(body.arguments),
          Context |-> Text(EmptyMessage, FALSE)]

\* ParseNotification: nil (NoNotification) when the body does not match.
ParseNotification(body) ==
    IF body.name = "" THEN NoNotification
    ELSE [Name |-> ToUpper(body.name), Arguments |-> TrimSpace(body.arguments),
          Context |-> TrimSpace(body.context)]

NotificationEqual(n, o) ==
    /\ o # NoNotification
    /\ n.Name = o.Name
    /\ n.Arguments = o.Arguments
    /\ n.Context = o.Context

\* ------------------------------------------- the codec, on the body's text
\* ParseNotification on a comment whose body is a sequence of characters.

Whitespace == {" ", "\n", "\t"}

RECURSIVE TrimLeft(_)
TrimLeft(s) == IF s # <<>> /\ s[1] \in Whitespace THEN TrimLeft(Tail(s)) ELSE s

RECURSIVE TrimRight(_)
TrimRight(s) ==
    IF s # <<>> /\ s[Len(s)] \in Whitespace THEN TrimRight(SubSeq(s, 1, Len(s) - 1)) ELSE s

\* strings.TrimSpace and strings.ToUpper.
TrimSpaceOf(s) == TrimRight(TrimLeft(s))
ToUpperOf(s) == [i \in DOMAIN s |-> IF s[i] = "a" THEN "A" ELSE s[i]]

\* The first position from p on where s holds a character of stop, Len(s) + 1
\* when there is none.
Find(s, p, stop) ==
    LET hits == {i \in p..Len(s) : s[i] \in stop}
    IN  IF hits = {} THEN Len(s) + 1 ELSE CHOOSE i \in hits : \A j \in hits : i <= j

NoMatch == <<>>

notificationRegexAnyBlankLine(body) ==
    LET close == Find(body, 2, Whitespace \cup {"]"})
    IN  IF body = <<>> \/ body[1] # "[" \/ close = 2 \/ close > Len(body) THEN NoMatch
        ELSE IF body[close] # "]" THEN NoMatch
        ELSE LET eol == Find(body, close + 1, {"\n"})
                 blank == {i \in eol..(Len(body) - 1) : body[i] = "\n" /\ body[i + 1] = "\n"}
                 first == CHOOSE i \in blank : \A j \in blank : i <= j
             IN  <<SubSeq(body, 2, close - 1),
                   SubSeq(body, close + 1, eol - 1),
                   IF blank # {} THEN SubSeq(body, first + 2, Len(body)) ELSE <<>>>>

\* notificationRegex.FindStringSubmatch(body), the three groups or NoMatch:
\* "[", one or more characters that are neither "]" nor white space, "]",
\* no space (" *?" takes as few as it can), the rest of the line, and, when
\* two newlines follow, all that comes after them.
notificationRegex(body) ==
    LET close == Find(body, 2, Whitespace \cup {"]"})
    IN  IF body = <<>> \/ body[1] # "[" \/ close = 2 \/ close > Len(body) THEN NoMatch
        ELSE IF body[close] # "]" THEN NoMatch
        ELSE LET eol == Find(body, close + 1, {"\n"})
             IN  <<SubSeq(body, 2, close - 1),
                   SubSeq(body, close + 1, eol - 1),
                   IF eol + 1 <= Len(body) /\ body[eol + 1] = "\n"
                   THEN SubSeq(body, eol + 2, Len(body)) ELSE <<>>>>

NilNotification == [isNil |-> TRUE, Name |-> <<>>, Arguments |-> <<>>, Context |-> <<>>]

\* ParseNotification(comment); comment and comment.Body may be nil.
ParseNotificationOf(c) ==
    IF c.isNil \/ c.bodyIsNil THEN NilNotification
    ELSE LET match == notificationRegex(c.body)
         IN  IF match = NoMatch THEN NilNotification
             ELSE [isNil |-> FALSE,
                   Name |-> ToUpperOf(match[1]),
                   Arguments |-> TrimSpaceOf(match[2]),
                   Context |-> TrimSpaceOf(match[3])]

NilComment == [isNil |-> TRUE, bodyIsNil |-> TRUE, body |-> <<>>]

NotParsed == [isNil |-> TRUE, Name |-> <<"not parsed">>, Arguments |-> <<>>, Context |-> <<>>]

\* --------------------------------------------------------- reconciliation

\* issueChange: the notification, state label, refresh interval and
\* milestone removal of a decision.
issueChange(icc) ==
    [notification |->
         NewNotification(milestoneNotifierName,
                         Text(StateTitle(icc.state), FALSE),
                         Text(messageBody(icc), TRUE)),
     label |-> StateLabel(icc.state),
     commentInterval |->
         IF WarnOnInterval(icc.state) THEN Duration(WarningInterval) ELSE NilDuration,
     removeFromMilestone |-> icc.state = milestoneNeedsRemoval]

NoChange ==
    [notification |-> NoNotification, label |-> "",
     commentInterval |-> NilDuration, removeFromMilestone |-> FALSE]

\* notificationComment: the index of the first listed comment the bot
\* wrote whose body parses as a notification named milestoneNotifierName;
\* 0 when there is none.
IsNotificationComment(c) ==
    /\ c.author = botName
    /\ ParseNotification(c.body) # NoNotification
    /\ ToUpper(ParseNotification(c.body).Name) = ToUpper(milestoneNotifierName)

notificationComment(cs) ==
    LET hits == {k \in DOMAIN cs : IsNotificationComment(cs[k])}
    IN  IF hits = {} THEN 0 ELSE CHOOSE k \in hits : \A j \in hits : k <= j

notificationIsCurrentIgnoringInterval(oldNotification, newNotification, hasComment, createdAt, commentInterval, t) ==
    oldNotification # NoNotification /\ NotificationEqual(oldNotification, newNotification)

\* notificationIsCurrent(oldNotification, newNotification, oldComment,
\* commentInterval); t is time.Now().
notificationIsCurrent(oldNotification, newNotification, hasComment, createdAt, commentInterval, t) ==
    LET notificationsEqual ==
            oldNotification # NoNotification /\ NotificationEqual(oldNotification, newNotification)
    IN  notificationsEqual /\
            (~commentInterval.known \/ (hasComment /\ t - createdAt < commentInterval.value))

\* updateMilestoneStateLabel: whether it calls AddLabel, and the state
\* labels it calls RemoveLabel for, both read from the event's issue.
NeedsAddLabelWhenDesired(issueLabels, labelName) == labelName # ""

NeedsAddLabel(issueLabels, labelName) ==
    labelName # "" /\ labelName \notin issueLabels

LabelsToRemoveNone(issueLabels, labelName) == {}

LabelsToRemoveFirstOnly(issueLabels, labelName) ==
    LET other == {k \in DOMAIN milestoneStateLabels :
                     milestoneStateLabels[k] # labelName
                     /\ milestoneStateLabels[k] \in issueLabels}
    IN  {k \in other : \A j \in other : k <= j}

LabelsToRemove(issueLabels, labelName) ==
    {k \in DOMAIN milestoneStateLabels :
        milestoneStateLabels[k] # labelName /\ milestoneStateLabels[k] \in issueLabels}

\* maintainIssue after DeleteComment returned: on to CreateComment, or out
\* with the error.
AfterDeleteCommentIgnoringError(ok) == "createComment"

AfterDeleteComment(ok) == IF ok THEN "createComment" ELSE "error"

\* maintainIssue after notificationComment returned no comment.
AfterNoComment == "return"

\* ------------------------------------------------------ staleness tracker

\* updateInterval: the interval in which a blocker must be updated.
updateInterval(m) ==
    IF m = milestoneModeSlush THEN SlushUpdateInterval
    ELSE IF m = milestoneModeFreeze THEN FreezeUpdateInterval
    ELSE 0

Later(a, b) == IF a < b THEN b ELSE a

RECURSIVE LatestOf(_, _, _)
\* The loops of the last*Update functions: the latest of start and the
\* listed times, from position k on.
LatestOf(start, times, k) ==
    IF k > Len(times) THEN start
    ELSE LatestOf(Later(start, times[k]), times, k + 1)

UpdateTimes(cs) ==
    LET human == SelectSeq(cs, LAMBDA c : c.author # botName)
    IN  [k \in DOMAIN human |-> human[k].updatedAt]

\* lastHumanIssueUpdate: the latest update of a comment not written by the
\* bot, the object's creation time when there is none.
lastHumanIssueUpdate(cs, createdAt) == LatestOf(createdAt, UpdateTimes(cs), 1)

\* lastHumanPullRequestUpdate: the same over the review comments.
lastHumanPullRequestUpdate(reviewComments, createdAt) ==
    LatestOf(createdAt, UpdateTimes(reviewComments), 1)

ReopenTimes(evs) ==
    LET reopened == SelectSeq(evs, LAMBDA ev : ev.event = "reopened")
    IN  [k \in DOMAIN reopened |-> reopened[k].createdAt]

\* lastInterestingEventUpdate: the latest 'reopened' event, the object's
\* creation time when there is none.
lastInterestingEventUpdate(evs, createdAt) == LatestOf(createdAt, ReopenTimes(evs), 1)

lastModificationTimeAnyObject(cs, evs, reviewComments, createdAt, isPR) ==
    LET lastHumanIssue == lastHumanIssueUpdate(cs, createdAt)
        lastInterestingEvent == lastInterestingEventUpdate(evs, createdAt)
        lastModif == Later(lastHumanIssue, lastInterestingEvent)
    IN  Later(lastModif, lastHumanPullRequestUpdate(reviewComments, createdAt))

\* lastModificationTime: the latest of the three (review comments count for
\* a pull request only).
lastModificationTime(cs, evs, reviewComments, createdAt, isPR) ==
    LET lastHumanIssue == lastHumanIssueUpdate(cs, createdAt)
        lastInterestingEvent == lastInterestingEventUpdate(evs, createdAt)
        lastModif == Later(lastHumanIssue, lastInterestingEvent)
    IN  IF isPR
        THEN Later(lastModif, lastHumanPullRequestUpdate(reviewComments, createdAt))
        ELSE lastModif

\* What lastModificationTime returned: nothing yet, a time, or the error of
\* a tracker read.
NotComputed == [state |-> "none", time |-> 0]
LastModified(t) == [state |-> "ok", time |-> t]
LastModifiedError == [state |-> "error", time |-> 0]

\* The githubObject of an issue created at time 0.
IssueObject == [createdAt |-> 0, isPR |-> FALSE]

\* ---------------------------------------------------------- configuration

\* The milestone the configuration targets and one it does not.
targetedMilestone == "v1.0"
otherMilestone == "v1.1"

\* The options a validator is registered for.
milestoneOptNames ==
    {"milestone-modes", "milestone-warning-interval",
     "milestone-label-grace-period", "milestone-approval-grace-period",
     "milestone-slush-update-interval", "milestone-freeze-update-interval",
     "milestone-freeze-date"}

\* An error is a string, "" for nil.
durationGreaterThanZeroOrEqual(value) ==
    IF value < 0 THEN "must be greater than zero" ELSE ""

durationGreaterThanZero(value) ==
    IF value <= 0 THEN "must be greater than zero" ELSE ""

\* The mapping from milestone title to phase is well formed when every
\* title is given one of the three phases.
parseMilestoneModes(modes) ==
    IF \A title \in DOMAIN modes : modes[title] \in milestoneModes
    THEN "" ELSE "invalid mode"

\* The validator registered for an option, applied to a configuration.
validator(name, cfg) ==
    CASE name = "milestone-modes" -> parseMilestoneModes(cfg.modes)
      [] name = "milestone-warning-interval" ->
             durationGreaterThanZero(cfg.warningInterval)
      [] name = "milestone-label-grace-period" ->
             durationGreaterThanZero(cfg.labelGracePeriod)
      [] name = "milestone-approval-grace-period" ->
             durationGreaterThanZero(cfg.approvalGracePeriod)
      [] name = "milestone-slush-update-interval" ->
             durationGreaterThanZero(cfg.slushUpdateInterval)
      [] name = "milestone-freeze-update-interval" ->
             durationGreaterThanZero(cfg.freezeUpdateInterval)
      [] name = "milestone-freeze-date" ->
             IF cfg.freezeDate = "" THEN "must be supplied" ELSE ""

\* Initialize / Validate: the validators run in the map's order and the
\* first error is returned, so the answer is one of the failing options'
\* errors; the empty set stands for nil.
Validate(cfg) == {name \in milestoneOptNames : validator(name, cfg) # ""}

\* pluginConfig, with the targeted milestone in phase m.
PluginConfig(m) ==
    [modes |-> (targetedMilestone :> m),
     warningInterval |-> WarningInterval,
     labelGracePeriod |-> LabelGracePeriod,
     approvalGracePeriod |-> ApprovalGracePeriod,
     slushUpdateInterval |-> SlushUpdateInterval,
     freezeUpdateInterval |-> FreezeUpdateInterval,
     freezeDate |-> "TBD"]

\* An open issue of the targeted milestone.
OpenIssue == [state |-> "open", milestone |-> targetedMilestone, isPR |-> FALSE]

ReleaseMilestoneOnceSet(iss, hasMilestone) == iss.milestone

\* Milestone.ReleaseMilestone(): the title of the issue's milestone, "" when
\* the issue has none.
ReleaseMilestone(iss, hasMilestone) == IF hasMilestone THEN iss.milestone ELSE ""

HandleIssueFilterOpenOrClosed(iss, hasMilestone, cfg) ==
    IF ReleaseMilestone(iss, hasMilestone) = "" THEN "no milestone"
    ELSE IF Validate(cfg) # {} THEN "invalid config"
    ELSE IF ReleaseMilestone(iss, hasMilestone) \notin DOMAIN cfg.modes
         THEN "not targeted"
    ELSE ""

\* The filters of HandleIssue, in the code's order: "" when the issue is to
\* be maintained, else what ends the run.
HandleIssueFilter(iss, hasMilestone, cfg) ==
    IF iss.state = "closed" THEN "closed"
    ELSE IF ReleaseMilestone(iss, hasMilestone) = "" THEN "no milestone"
    ELSE IF Validate(cfg) # {} THEN "invalid config"
    ELSE IF ReleaseMilestone(iss, hasMilestone) \notin DOMAIN cfg.modes
         THEN "not targeted"
    ELSE ""

VARIABLES
    labels,      \* tracker: the labels set on the issue
    events,      \* tracker: the issue's event history, in listing order
    comments,    \* tracker: the issue's comments, in listing order
    milestone,   \* tracker: whether the issue is in its milestone
    now,         \* the clock
    mode,        \* config.Modes[milestone]
    config,      \* the plugin's configuration
    issue,       \* the event's issue: its state, milestone title, kind
    issues,      \* batch scan: the issues FindIssues returned, not yet reached
    obj,         \* staleness: the githubObject (createdAt, isPR)
    reviewComments, \* tracker: the pull request's review comments
    lastModif,   \* staleness: what lastModificationTime returned
    other,       \* concurrent delivery: the invocation that is not at its turn
    labelsListed, \* validator: the issue's labels in the order listed
    iteration,   \* validator: the iteration orders of kindMap and priorityMap
    checked,     \* validator: what checkLabels returned
    rawComment,  \* codec: the comment handed to ParseNotification
    parsed,      \* codec: what ParseNotification returned
    pc,          \* where the run in progress stands ("idle": none)
    e,           \* the event's issue: the labels the run was handed
    icc,         \* the run's issueChangeConfig
    change,      \* the run's issueChange
    comment,     \* the index notificationComment returned
    commentId,   \* comment.ID, 0 when there is none
    idx,         \* the next position of the milestoneStateLabels loop
    calls,       \* the mutating tracker calls the run has issued
    labelDone,   \* whether updateMilestoneStateLabel has returned nil in the run
    pre,         \* what the tracker held when the run started
    nextId,      \* the id the tracker gives the next comment
    hist         \* the finished runs

vars ==
    <<labels, events, comments, milestone, now, mode, config, issue, issues,
      obj, reviewComments, lastModif, other, labelsListed, iteration,
      checked, rawComment, parsed, pc, e, icc, change, comment,
      commentId, idx, calls, labelDone, pre, nextId, hist>>

tracker == <<labels, events, comments, milestone>>
staleness == <<obj, reviewComments, lastModif>>
validation == <<labelsListed, iteration, checked>>

codec == <<rawComment, parsed>>

run == <<e, icc, change, comment, commentId, idx, calls, labelDone, pre>>

StateLabelsOf(ls) == ls \cap StateLabelSet

NotificationComments(cs) == {k \in DOMAIN cs : IsNotificationComment(cs[k])}

Call(name, arg, ok) == [call |-> name, arg |-> arg, ok |-> ok]

LabelEvent(kind, actor, label, t) ==
    [event |-> kind, actor |-> actor, label |-> label, createdAt |-> t]

Comment(id, author, body, t) ==
    [id |-> id, author |-> author, body |-> body, createdAt |-> t, updatedAt |-> t]

StaleMessage == [EmptyMessage EXCEPT !.sections = {"stale"}]

StaleBody ==
    NotificationString(
        NewNotification(milestoneNotifierName, Text("stale", FALSE), Text(StaleMessage, TRUE)))

\* The comments an issue may start with: a human's copy of a notification
\* and a bot comment that is no notification, alone or followed by a
\* notification the bot left earlier.
OtherComments ==
    <<Comment(1, humanName, StaleBody, 0), Comment(2, botName, PlainBody, 0)>>

InitComments ==
    {OtherComments, Append(OtherComments, Comment(3, botName, StaleBody, 0))}

\* The events an issue may start with: none (the history is not available),
\* or one application, by the bot or by a human, of a state label it carries.
InitEvents(ls) ==
    {<<>>} \cup
    {<<LabelEvent("labeled", a, l, 0)>> :
        a \in {botName, humanName},
        l \in ls \cap {milestoneLabelsIncompleteLabel, milestoneNeedsApprovalLabel}}

\* An invocation that has not started.
IdleRun ==
    [pc |-> "idle", e |-> [labels |-> {}], icc |-> NewIcc, change |-> NoChange,
     comment |-> 0, commentId |-> 0, idx |-> 1, calls |-> <<>>,
     labelDone |-> FALSE,
     pre |-> [labels |-> {}, hasNotification |-> FALSE, milestone |-> FALSE,
              comments |-> <<>>]]

Init ==
    /\ \E h \in InitHumanLabels, s \in StateLabelSet \cup {""} :
           labels = h \cup (IF s = "" THEN {} ELSE {s})
    /\ events \in InitEvents(labels)
    /\ comments \in InitComments
    /\ milestone = TRUE
    /\ now = 0
    /\ mode \in IF ReadsMode(labels) THEN milestoneModes ELSE {milestoneModeDev}
    /\ config = PluginConfig(mode)
    /\ issue = OpenIssue
    /\ issues = <<>>
    /\ pc = "idle"
    /\ e = [labels |-> {}]
    /\ icc = NewIcc
    /\ change = NoChange
    /\ comment = 0
    /\ commentId = 0
    /\ idx = 1
    /\ calls = <<>>
    /\ labelDone = FALSE
    /\ pre = [labels |-> {}, hasNotification |-> FALSE, milestone |-> FALSE,
              comments |-> <<>>]
    /\ nextId = 4
    /\ obj = IssueObject
    /\ reviewComments = <<>>
    /\ lastModif = NotComputed
    /\ other = IdleRun
    /\ labelsListed = <<>>
    /\ iteration = NoIteration
    /\ checked = NotChecked
    /\ rawComment = NilComment
    /\ parsed = NotParsed
    /\ hist = <<>>

\* The record of a run that ends now, having issued cs, with labels ls left
\* on the tracker.
Finished(err, decided, d, ch, cs, ls, done, p, rs) ==
    [t |-> now, err |-> err, decided |-> decided, state |-> d.state,
     reads |-> rs,
     label |-> ch.label, notification |-> ch.notification, calls |-> cs,
     preLabels |-> p.labels, preHasNotification |-> p.hasNotification,
     postLabels |-> ls, labelDone |-> done]

\* The read calls a run has issued on the tracker: labelLastCreatedAt lists
\* the events and asks the bot's name when the grace period needs them;
\* notificationComment, past the label step, lists the comments and asks the
\* bot's name.
EngineReads(issueLabels) ==
    IF IccReadsEvents(issueLabels) THEN {"ListIssueEvents", "BotName"} ELSE {}

RunReads ==
    EngineReads(e.labels) \cup
    (IF pc \in {"addLabel", "removeLabel"} THEN {}
     ELSE {"ListIssueComments", "BotName"})

EndRun(err, cs, ls, done) ==
    /\ pc' = "idle"
    /\ hist' = Append(hist, Finished(err, TRUE, icc, change, cs, ls, done, pre,
                                     RunReads))

\* A tracker call may fail while fewer than MaxFailures runs have failed.
Outcomes ==
    IF Cardinality({k \in DOMAIN hist : hist[k].err}) < MaxFailures
    THEN BOOLEAN ELSE {TRUE}

\* The clock advances between runs.
Tick ==
    /\ pc = "idle"
    /\ now < MaxTime
    /\ Len(hist) < MaxRuns
    /\ now' = now + 1
    /\ UNCHANGED <<tracker, mode, config, issue, issues, staleness, other, validation, codec, pc, run, nextId, hist>>

\* HandleIssue up to the decision: the filters and the validation of the
\* configuration, then issueChange.  A failed ListIssueEvents or BotName ends
\* the run with the error.
HandleIssue ==
    /\ pc = "idle"
    /\ Len(hist) < MaxRuns
    /\ LET p == [labels |-> labels,
                 hasNotification |-> NotificationComments(comments) # {},
                 milestone |-> milestone,
                 comments |-> comments]
       IN  /\ pre' = p
           /\ e' = [labels |-> labels]
           /\ comment' = 0
           /\ commentId' = 0
           /\ idx' = 1
           /\ calls' = <<>>
           /\ labelDone' = FALSE
           /\ IF HandleIssueFilter(issue, milestone, config) # ""
              THEN /\ icc' = NewIcc
                   /\ change' = NoChange
                   /\ pc' = "idle"
                   /\ mode' = mode
                   /\ hist' = Append(hist,
                          Finished(HandleIssueFilter(issue, milestone, config)
                                       = "invalid config",
                                   FALSE, NewIcc, NoChange, <<>>, labels, FALSE, p, {}))
              ELSE \E readOk \in Outcomes :
                      /\ mode' = config.modes[ReleaseMilestone(issue, milestone)]
                      /\ IF IccReadsEvents(labels) /\ ~readOk
                         THEN /\ icc' = NewIcc
                              /\ change' = NoChange
                              /\ pc' = "idle"
                              /\ hist' = Append(hist,
                                     Finished(TRUE, FALSE, NewIcc, NoChange, <<>>,
                                              labels, FALSE, p, EngineReads(labels)))
                         ELSE /\ icc' = issueChangeConfig(labels, events, mode', now)
                              /\ change' = issueChange(icc')
                              /\ pc' = "addLabel"
                              /\ hist' = hist
    /\ UNCHANGED <<tracker, now, config, issue, issues, staleness, other, validation, codec, nextId>>

\* updateMilestoneStateLabel: the AddLabel call, when the label is wanted
\* and the event's issue lacks it.
AddLabel ==
    /\ pc = "addLabel"
    /\ IF NeedsAddLabel(e.labels, change.label)
       THEN \E ok \in Outcomes :
              LET cs == Append(calls, Call("AddLabel", change.label, ok))
              IN  /\ calls' = cs
                  /\ IF ok
                     THEN /\ labels' = labels \cup {change.label}
                          /\ events' = Append(events,
                                 LabelEvent("labeled", botName, change.label, now))
                          /\ pc' = "removeLabel"
                          /\ hist' = hist
                     ELSE /\ UNCHANGED <<labels, events>>
                          /\ EndRun(TRUE, cs, labels, FALSE)
       ELSE /\ pc' = "removeLabel"
            /\ UNCHANGED <<labels, events, calls, hist>>
    /\ UNCHANGED <<comments, milestone, now, mode, config, issue, issues, staleness, other, validation, codec, e, icc, change, comment, commentId,
                   idx, labelDone, pre, nextId>>

\* updateMilestoneStateLabel: one turn of the loop that removes the other
\* state labels of the event's issue; past the last one it returns nil.
RemoveLabel ==
    /\ pc = "removeLabel"
    /\ LET todo == {k \in LabelsToRemove(e.labels, change.label) : k >= idx}
       IN  IF todo = {}
           THEN /\ pc' = "comment"
                /\ labelDone' = TRUE
                /\ UNCHANGED <<labels, events, calls, idx, hist>>
           ELSE LET k == CHOOSE j \in todo : \A j2 \in todo : j <= j2
                    l == milestoneStateLabels[k]
                IN  \E ok \in (IF l \in labels THEN Outcomes ELSE BOOLEAN) :
                      LET cs == Append(calls, Call("RemoveLabel", l, ok))
                      IN  /\ calls' = cs
                          /\ idx' = k + 1
                          /\ labelDone' = FALSE
                          /\ IF ok
                             THEN /\ labels' = labels \ {l}
                                  /\ events' = IF l \in labels
                                               THEN Append(events,
                                                      LabelEvent("unlabeled", botName, l, now))
                                               ELSE events
                                  /\ pc' = "removeLabel"
                                  /\ hist' = hist
                             ELSE /\ UNCHANGED <<labels, events>>
                                  /\ EndRun(TRUE, cs, labels, FALSE)
    /\ UNCHANGED <<comments, milestone, now, mode, config, issue, issues, staleness, other, validation, codec, e, icc, change, comment, commentId,
                   pre, nextId>>

\* notificationComment and what maintainIssue does with its answer: out with
\* the error, out when there is no comment, on to ClearMilestone when the
\* notification is current, else on to DeleteComment.
FindNotification ==
    /\ pc = "comment"
    /\ \E ok \in Outcomes :
         IF ~ok
         THEN /\ comment' = 0
              /\ commentId' = 0
              /\ EndRun(TRUE, calls, labels, labelDone)
         ELSE LET k == notificationComment(comments)
              IN  /\ comment' = k
                  /\ commentId' = IF k = 0 THEN 0 ELSE comments[k].id
                  /\ IF k = 0
                     THEN IF AfterNoComment = "return"
                          THEN EndRun(FALSE, calls, labels, labelDone)
                          ELSE pc' = "createComment" /\ hist' = hist
                     ELSE IF notificationIsCurrent(change.notification,
                                  ParseNotification(comments[k].body), TRUE,
                                  comments[k].createdAt, change.commentInterval, now)
                          THEN pc' = "clearMilestone" /\ hist' = hist
                          ELSE pc' = "deleteComment" /\ hist' = hist
    /\ UNCHANGED <<tracker, now, mode, config, issue, issues, staleness, other, validation, codec, e, icc, change, idx, calls, labelDone,
                   pre, nextId>>

\* DeleteComment of the comment found; the tracker answers with an error
\* when the comment is no longer there.
DeleteComment ==
    /\ pc = "deleteComment"
    /\ \E answer \in Outcomes :
         LET ok == answer /\ (\E k \in DOMAIN comments : comments[k].id = commentId)
             cs == Append(calls, Call("DeleteComment", "", ok))
         IN  /\ calls' = cs
             /\ comments' = IF ok
                            THEN SelectSeq(comments, LAMBDA c : c.id # commentId)
                            ELSE comments
             /\ IF AfterDeleteComment(ok) = "createComment"
                THEN pc' = "createComment" /\ hist' = hist
                ELSE EndRun(TRUE, cs, labels, labelDone)
    /\ UNCHANGED <<labels, events, milestone, now, mode, config, issue, issues, staleness, other, validation, codec, e, icc, change,
                   comment, commentId, idx, labelDone, pre, nextId>>

CreateComment ==
    /\ pc = "createComment"
    /\ \E ok \in Outcomes :
         LET cs == Append(calls, Call("CreateComment", "", ok))
         IN  /\ calls' = cs
             /\ IF ok
                THEN /\ comments' = Append(comments,
                            Comment(nextId, botName,
                                    NotificationString(change.notification), now))
                     /\ nextId' = nextId + 1
                     /\ pc' = "clearMilestone"
                     /\ hist' = hist
                ELSE /\ UNCHANGED <<comments, nextId>>
                     /\ EndRun(TRUE, cs, labels, labelDone)
    /\ UNCHANGED <<labels, events, milestone, now, mode, config, issue, issues, staleness, other, validation, codec, e, icc, change,
                   comment, commentId, idx, labelDone, pre>>

\* The end of maintainIssue: ClearMilestone when the decision removes the
\* issue from the milestone, then return nil.
ClearMilestone ==
    /\ pc = "clearMilestone"
    /\ IF change.removeFromMilestone
       THEN \E ok \in Outcomes :
              LET cs == Append(calls, Call("ClearMilestone", "", ok))
              IN  /\ calls' = cs
                  /\ milestone' = IF ok THEN FALSE ELSE milestone
                  /\ EndRun(~ok, cs, labels, labelDone)
       ELSE /\ UNCHANGED <<calls, milestone>>
            /\ EndRun(FALSE, calls, labels, labelDone)
    /\ UNCHANGED <<labels, events, comments, now, mode, config, issue, issues, staleness, other, validation, codec, e, icc, change,
                   comment, commentId, idx, labelDone, pre, nextId>>

Next ==
    \/ Tick
    \/ HandleIssue
    \/ AddLabel
    \/ RemoveLabel
    \/ FindNotification
    \/ DeleteComment
    \/ CreateComment
    \/ ClearMilestone

Spec == Init /\ [][Next]_vars

\* ------------------------------------------------- the engine's inputs

\* SpecEngine runs the reconciliation once, from every combination of
\* labels, mode, clock value and event history below.

EngineHumanLabels ==
    {k \cup p \cup a :
        k \in {{}, {"kind/bug"}, {"kind/bug", "sig/foo"}},
        p \in {{}, {blockerLabel}, {"priority/important-soon"}},
        a \in SUBSET {statusApprovedLabel, statusInProgressLabel}}

EngineStateLabels == {milestoneLabelsIncompleteLabel, milestoneNeedsApprovalLabel}

\* Applications of a state label by the bot or by a human, one clock unit
\* apart at most MaxEvents of them.
EngineEventPool ==
    {LabelEvent("labeled", a, l, t) :
        a \in {botName, humanName}, l \in EngineStateLabels, t \in 0..(MaxEvents - 1)}

\* The event lists the tracker may return: at most MaxEvents events with
\* different creation times, listed in any order (ListIssueEvents promises
\* none).
EngineEvents ==
    UNION {{evs \in [1..n -> EngineEventPool] :
               \A i, j \in 1..n : i # j => evs[i].createdAt # evs[j].createdAt} :
           n \in 0..MaxEvents}

InitEngine ==
    /\ labels \in {h \cup s : h \in EngineHumanLabels, s \in SUBSET EngineStateLabels}
    /\ events \in {evs \in EngineEvents : \A k \in DOMAIN evs : evs[k].label = evs[1].label}
    /\ comments = Append(OtherComments, Comment(3, botName, StaleBody, 0))
    /\ milestone = TRUE
    /\ now \in {t \in 0..MaxTime : \A k \in DOMAIN events : events[k].createdAt <= t}
    /\ mode \in milestoneModes
    /\ config = PluginConfig(mode)
    /\ issue = OpenIssue
    /\ issues = <<>>
    /\ pc = "idle"
    /\ e = [labels |-> {}]
    /\ icc = NewIcc
    /\ change = NoChange
    /\ comment = 0
    /\ commentId = 0
    /\ idx = 1
    /\ calls = <<>>
    /\ labelDone = FALSE
    /\ pre = [labels |-> {}, hasNotification |-> FALSE, milestone |-> FALSE,
              comments |-> <<>>]
    /\ nextId = 4
    /\ obj = IssueObject
    /\ reviewComments = <<>>
    /\ lastModif = NotComputed
    /\ other = IdleRun
    /\ labelsListed = <<>>
    /\ iteration = NoIteration
    /\ checked = NotChecked
    /\ rawComment = NilComment
    /\ parsed = NotParsed
    /\ hist = <<>>

NextEngine ==
    \/ hist = <<>> /\ HandleIssue
    \/ AddLabel
    \/ RemoveLabel
    \/ FindNotification
    \/ DeleteComment
    \/ CreateComment
    \/ ClearMilestone

SpecEngine == InitEngine /\ [][NextEngine]_vars

\* ------------------------------------------------------- the batch scan

\* The label sets of the issues a scan meets: no label at all, the
\* incomplete-labels label alone, and a complete, approved issue.
ScanLabels ==
    {{}, {milestoneLabelsIncompleteLabel},
     {"kind/bug", "sig/foo", "priority/important-soon", statusApprovedLabel}}

\* FindIssues asks for the open issues of the milestone.
ScanIssues ==
    UNION {{[issue |-> OpenIssue, labels |-> ls, events |-> evs, comments |-> cs] :
                evs \in InitEvents(ls), cs \in InitComments} : ls \in ScanLabels}

RECURSIVE SeqsOf(_, _)
SeqsOf(S, n) ==
    IF n = 0 THEN {<<>>}
    ELSE {Append(q, x) : q \in SeqsOf(S, n - 1), x \in S}

\* main: the issues FindIssues returned for the milestone, MaxRuns of them;
\* the loop is at the first.
InitScan ==
    /\ \E first \in ScanIssues :
           /\ labels = first.labels
           /\ events = first.events
           /\ comments = first.comments
           /\ issue = first.issue
    /\ issues \in SeqsOf(ScanIssues, MaxRuns - 1)
    /\ milestone = TRUE
    /\ now \in {0, MaxTime}
    /\ mode \in milestoneModes
    /\ config = PluginConfig(mode)
    /\ pc = "idle"
    /\ e = [labels |-> {}]
    /\ icc = NewIcc
    /\ change = NoChange
    /\ comment = 0
    /\ commentId = 0
    /\ idx = 1
    /\ calls = <<>>
    /\ labelDone = FALSE
    /\ pre = [labels |-> {}, hasNotification |-> FALSE, milestone |-> FALSE,
              comments |-> <<>>]
    /\ nextId = 4
    /\ obj = IssueObject
    /\ reviewComments = <<>>
    /\ lastModif = NotComputed
    /\ other = IdleRun
    /\ labelsListed = <<>>
    /\ iteration = NoIteration
    /\ checked = NotChecked
    /\ rawComment = NilComment
    /\ parsed = NotParsed
    /\ hist = <<>>

\* Whether the loop is at an issue it has not handed to HandleIssue yet.
AtUnhandledIssue == Len(hist) + Len(issues) < MaxRuns

\* What the loop does with the error HandleIssue returned: it logs it.
ContinueScanUntilError(err) == ~err

ContinueScan(err) == TRUE

\* The loop's turn: once HandleIssue has returned, on to the next issue.
NextIssue ==
    /\ pc = "idle"
    /\ ~AtUnhandledIssue
    /\ issues # <<>>
    /\ ContinueScan(hist[Len(hist)].err)
    /\ labels' = Head(issues).labels
    /\ events' = Head(issues).events
    /\ comments' = Head(issues).comments
    /\ issue' = Head(issues).issue
    /\ milestone' = TRUE
    /\ issues' = Tail(issues)
    /\ UNCHANGED <<now, mode, config, staleness, other, validation, codec, pc, run, nextId, hist>>

NextScan ==
    \/ AtUnhandledIssue /\ HandleIssue
    \/ NextIssue
    \/ AddLabel
    \/ RemoveLabel
    \/ FindNotification
    \/ DeleteComment
    \/ CreateComment
    \/ ClearMilestone

SpecScan == InitScan /\ [][NextScan]_vars

\* ------------------------------------------------------ the inbound event

\* The values an option of the configuration may have been given.
InboundDurations(valid) == {-1, 0, valid}

InboundConfigs ==
    {[modes |-> (targetedMilestone :> m),
      warningInterval |-> w, labelGracePeriod |-> l, approvalGracePeriod |-> a,
      slushUpdateInterval |-> s, freezeUpdateInterval |-> f, freezeDate |-> d] :
        m \in milestoneModes \cup {"unknown"},
        w \in InboundDurations(WarningInterval),
        l \in InboundDurations(LabelGracePeriod),
        a \in InboundDurations(ApprovalGracePeriod),
        s \in InboundDurations(SlushUpdateInterval),
        f \in InboundDurations(FreezeUpdateInterval),
        d \in {"", "TBD"}}

InboundIssues ==
    [state : {"open", "closed"}, milestone : {targetedMilestone, otherMilestone},
     isPR : BOOLEAN]

\* One event is handed to HandleIssue: any issue or pull request, with or
\* without a milestone, under any configuration.
InitInbound ==
    /\ labels \in {{}, {"kind/bug", "sig/foo", "priority/important-soon",
                       statusApprovedLabel}}
    /\ events = <<>>
    /\ comments = Append(OtherComments, Comment(3, botName, StaleBody, 0))
    /\ milestone \in BOOLEAN
    /\ now = 0
    /\ config \in InboundConfigs
    /\ issue \in InboundIssues
    /\ issues = <<>>
    /\ mode = milestoneModeDev
    /\ pc = "idle"
    /\ e = [labels |-> {}]
    /\ icc = NewIcc
    /\ change = NoChange
    /\ comment = 0
    /\ commentId = 0
    /\ idx = 1
    /\ calls = <<>>
    /\ labelDone = FALSE
    /\ pre = [labels |-> {}, hasNotification |-> FALSE, milestone |-> FALSE,
              comments |-> <<>>]
    /\ nextId = 4
    /\ obj = IssueObject
    /\ reviewComments = <<>>
    /\ lastModif = NotComputed
    /\ other = IdleRun
    /\ labelsListed = <<>>
    /\ iteration = NoIteration
    /\ checked = NotChecked
    /\ rawComment = NilComment
    /\ parsed = NotParsed
    /\ hist = <<>>

NextInbound ==
    \/ hist = <<>> /\ HandleIssue
    \/ AddLabel
    \/ RemoveLabel
    \/ FindNotification
    \/ DeleteComment
    \/ CreateComment
    \/ ClearMilestone

SpecInbound == InitInbound /\ [][NextInbound]_vars

\* ---------------------------------------------------- the validator's inputs

\* Any set of kind, priority and sig labels, none to all of them.
InitLabels ==
    /\ labels \in SUBSET (kindMap \cup priorityMap \cup SigLabels)
    /\ events = <<>>
    /\ comments = Append(OtherComments, Comment(3, botName, StaleBody, 0))
    /\ milestone = TRUE
    /\ now = 0
    /\ mode \in {milestoneModeDev, milestoneModeFreeze}
    /\ config = PluginConfig(mode)
    /\ issue = OpenIssue
    /\ issues = <<>>
    /\ pc = "idle"
    /\ e = [labels |-> {}]
    /\ icc = NewIcc
    /\ change = NoChange
    /\ comment = 0
    /\ commentId = 0
    /\ idx = 1
    /\ calls = <<>>
    /\ labelDone = FALSE
    /\ pre = [labels |-> {}, hasNotification |-> FALSE, milestone |-> FALSE,
              comments |-> <<>>]
    /\ nextId = 4
    /\ obj = IssueObject
    /\ reviewComments = <<>>
    /\ lastModif = NotComputed
    /\ other = IdleRun
    /\ labelsListed = <<>>
    /\ iteration = NoIteration
    /\ checked = NotChecked
    /\ rawComment = NilComment
    /\ parsed = NotParsed
    /\ hist = <<>>

SpecLabels == InitLabels /\ [][NextEngine]_vars

\* --------------------------------------- the validator's inputs, in order

\* The labels an issue may carry: kind, priority and sig labels, and names
\* that hold the prefix's parts without starting with the prefix.
LabelPool ==
    {"kind/bug", "kind/feature", "priority/important-soon",
     "sig/foo", "sig/bar", "baz", "sig", "area/sig/foo"}

\* The orders in which the elements of S may be listed.
Orders(S) ==
    {q \in [1..Cardinality(S) -> S] : \A i, j \in DOMAIN q : i # j => q[i] # q[j]}

\* At most MaxLabels labels of LabelPool in any order, and kindMap and
\* priorityMap iterated in any order.
InitLabelOrder ==
    /\ labelsListed \in UNION {Orders(S) : S \in {T \in SUBSET LabelPool : Cardinality(T) <= MaxLabels}}
    /\ iteration \in [kind : Orders(kindMap), priority : Orders(priorityMap)]
    /\ checked = NotChecked
    /\ rawComment = NilComment
    /\ parsed = NotParsed
    /\ labels = {labelsListed[i] : i \in DOMAIN labelsListed}
    /\ events = <<>>
    /\ comments = <<>>
    /\ milestone = TRUE
    /\ now = 0
    /\ mode = milestoneModeDev
    /\ config = PluginConfig(mode)
    /\ issue = OpenIssue
    /\ issues = <<>>
    /\ pc = "idle"
    /\ e = [labels |-> {}]
    /\ icc = NewIcc
    /\ change = NoChange
    /\ comment = 0
    /\ commentId = 0
    /\ idx = 1
    /\ calls = <<>>
    /\ labelDone = FALSE
    /\ pre = [labels |-> {}, hasNotification |-> FALSE, milestone |-> FALSE,
              comments |-> <<>>]
    /\ nextId = 1
    /\ obj = IssueObject
    /\ reviewComments = <<>>
    /\ lastModif = NotComputed
    /\ other = IdleRun
    /\ hist = <<>>

\* checkLabels(issue.Labels).
CheckLabels ==
    /\ checked = NotChecked
    /\ checked' = checkLabelsOf(labelsListed, iteration)
    /\ UNCHANGED <<tracker, now, mode, config, issue, issues, staleness, other,
                   labelsListed, iteration, codec, pc, run, nextId, hist>>

NextLabelOrder == CheckLabels

SpecLabelOrder == InitLabelOrder /\ [][NextLabelOrder]_vars

\* --------------------------------------------------- the staleness inputs

\* Up to two of the elements of S, in any order.
UpToTwo(S) == {<<>>} \cup {<<x>> : x \in S} \cup {<<x, y>> : x \in S, y \in S}

\* Comments by the bot or a human, updated at any time.
UpdatedComments ==
    {[Comment(1, a, PlainBody, 0) EXCEPT !.updatedAt = u] :
        a \in {botName, humanName}, u \in 0..MaxTime}

\* 'reopened' events at any time, and a late event of another kind.
HistoryEvents ==
    {LabelEvent("reopened", humanName, "", t) : t \in 0..MaxTime}
    \cup {LabelEvent("labeled", humanName, "kind/bug", MaxTime)}

\* Review comments: a human's at any time, the bot's at the latest.
ReviewComments ==
    {<<>>}
    \cup {<<[Comment(1, humanName, PlainBody, 0) EXCEPT !.updatedAt = u]>> :
             u \in 0..MaxTime}
    \cup {<<[Comment(1, botName, PlainBody, 0) EXCEPT !.updatedAt = MaxTime]>>}

\* An issue or a pull request with its histories, lastModificationTime not
\* yet called.
InitLastUpdate ==
    /\ labels = {}
    /\ events \in UpToTwo(HistoryEvents)
    /\ comments \in UpToTwo(UpdatedComments)
    /\ reviewComments \in ReviewComments
    /\ obj \in [createdAt : {0, 1}, isPR : BOOLEAN]
    /\ lastModif = NotComputed
    /\ other = IdleRun
    /\ labelsListed = <<>>
    /\ iteration = NoIteration
    /\ checked = NotChecked
    /\ rawComment = NilComment
    /\ parsed = NotParsed
    /\ milestone = TRUE
    /\ now = MaxTime
    /\ mode = milestoneModeDev
    /\ config = PluginConfig(mode)
    /\ issue = OpenIssue
    /\ issues = <<>>
    /\ pc = "idle"
    /\ e = [labels |-> {}]
    /\ icc = NewIcc
    /\ change = NoChange
    /\ comment = 0
    /\ commentId = 0
    /\ idx = 1
    /\ calls = <<>>
    /\ labelDone = FALSE
    /\ pre = [labels |-> {}, hasNotification |-> FALSE, milestone |-> FALSE,
              comments |-> <<>>]
    /\ nextId = 4
    /\ hist = <<>>

\* lastModificationTime with its reads of the tracker: the error of the
\* first read that fails, else the time.
LastModificationTime ==
    /\ lastModif = NotComputed
    /\ \E ok \in BOOLEAN :
          lastModif' = IF ok
                       THEN LastModified(lastModificationTime(comments, events,
                                reviewComments, obj.createdAt, obj.isPR))
                       ELSE LastModifiedError
    /\ UNCHANGED <<tracker, now, mode, config, issue, issues, obj, reviewComments, other, validation, codec,
                   pc, run, nextId, hist>>

NextLastUpdate == LastModificationTime

SpecLastUpdate == InitLastUpdate /\ [][NextLastUpdate]_vars

\* ------------------------------------------------------ the codec's inputs

\* Any Notification value: a name in any letter case or none, a title and a
\* message with or without surrounding white space.
CodecNotifications ==
    {[Name |-> n, Arguments |-> Text(a, ap), Context |-> Text(c, cp)] :
        n \in {"", "MilestoneNotifier", "MILESTONENOTIFIER", "OtherNotifier",
               "OTHERNOTIFIER"},
        a \in {"", StateTitle(milestoneCurrent)}, ap \in BOOLEAN,
        c \in {EmptyMessage, StaleMessage}, cp \in BOOLEAN}

\* A run about to post the notification of its change.
InitCodec ==
    /\ change \in {[NoChange EXCEPT !.notification = n] : n \in CodecNotifications}
    /\ pc = "createComment"
    /\ labels = {}
    /\ events = <<>>
    /\ comments = OtherComments
    /\ milestone = TRUE
    /\ now = 0
    /\ mode = milestoneModeDev
    /\ config = PluginConfig(mode)
    /\ issue = OpenIssue
    /\ issues = <<>>
    /\ e = [labels |-> {}]
    /\ icc = NewIcc
    /\ comment = 0
    /\ commentId = 0
    /\ idx = 1
    /\ calls = <<>>
    /\ labelDone = TRUE
    /\ pre = [labels |-> {}, hasNotification |-> FALSE, milestone |-> TRUE,
              comments |-> OtherComments]
    /\ nextId = 4
    /\ obj = IssueObject
    /\ reviewComments = <<>>
    /\ lastModif = NotComputed
    /\ other = IdleRun
    /\ labelsListed = <<>>
    /\ iteration = NoIteration
    /\ checked = NotChecked
    /\ rawComment = NilComment
    /\ parsed = NotParsed
    /\ hist = <<>>

NextCodec ==
    \/ CreateComment
    \/ ClearMilestone

SpecCodec == InitCodec /\ [][NextCodec]_vars

\* ------------------------------------------------- the codec's inputs, text

\* How a body may begin: with a token, with tokens that are none (not
\* closed, empty, holding white space), with something before the token.
\* What may follow it: up to MaxBody characters, spaces, newlines and text.
\* The comment is nil, has a nil body, or has one of these bodies.
InitParse ==
    /\ LET Heads ==
               {<<>>, <<"[", "a", "]">>, <<"[", "a">>, <<"[", "]">>,
                <<"[", "a", " ", "a", "]">>, <<"[", "a", "\t", "]">>,
                <<" ", "[", "a", "]">>, <<"x", "[", "a", "]">>,
                <<"[", "[", "a", "]">>, <<"[", "a", "]", "]">>}
           Tails == UNION {SeqsOf({" ", "\n", "x"}, n) : n \in 0..MaxBody}
       IN  rawComment \in {NilComment, [NilComment EXCEPT !.isNil = FALSE]}
                          \cup {[isNil |-> FALSE, bodyIsNil |-> FALSE, body |-> h \o t] :
                                   h \in Heads, t \in Tails}
    /\ parsed = NotParsed
    /\ labelsListed = <<>>
    /\ iteration = NoIteration
    /\ checked = NotChecked
    /\ labels = {}
    /\ events = <<>>
    /\ comments = <<>>
    /\ milestone = TRUE
    /\ now = 0
    /\ mode = milestoneModeDev
    /\ config = PluginConfig(mode)
    /\ issue = OpenIssue
    /\ issues = <<>>
    /\ pc = "idle"
    /\ e = [labels |-> {}]
    /\ icc = NewIcc
    /\ change = NoChange
    /\ comment = 0
    /\ commentId = 0
    /\ idx = 1
    /\ calls = <<>>
    /\ labelDone = FALSE
    /\ pre = [labels |-> {}, hasNotification |-> FALSE, milestone |-> FALSE,
              comments |-> <<>>]
    /\ nextId = 1
    /\ obj = IssueObject
    /\ reviewComments = <<>>
    /\ lastModif = NotComputed
    /\ other = IdleRun
    /\ hist = <<>>

\* ParseNotification(comment).
ParseComment ==
    /\ parsed = NotParsed
    /\ parsed' = ParseNotificationOf(rawComment)
    /\ UNCHANGED <<tracker, now, mode, config, issue, issues, staleness, other,
                   validation, rawComment, pc, run, nextId, hist>>

NextParse == ParseComment

SpecParse == InitParse /\ [][NextParse]_vars

\* ----------------------------------------- duplicate concurrent delivery
\* Two deliveries of the same object run maintainIssue at the same time (no
\* third one follows):
\* each has its own event, decision and position, and they share the tracker.
\* One invocation is at its turn; Switch hands the turn to the other one, at
\* any point between two tracker requests.

Started == Len(hist) + (IF pc # "idle" THEN 1 ELSE 0)
                     + (IF other.pc # "idle" THEN 1 ELSE 0)

Switch ==
    /\ pc # "idle" \/ other.pc # "idle"
    /\ pc = "idle" => Started = 2
    /\ other' = [pc |-> pc, e |-> e, icc |-> icc, change |-> change,
                 comment |-> comment, commentId |-> commentId, idx |-> idx,
                 calls |-> calls, labelDone |-> labelDone, pre |-> pre]
    /\ pc' = other.pc
    /\ e' = other.e
    /\ icc' = other.icc
    /\ change' = other.change
    /\ comment' = other.comment
    /\ commentId' = other.commentId
    /\ idx' = other.idx
    /\ calls' = other.calls
    /\ labelDone' = other.labelDone
    /\ pre' = other.pre
    /\ UNCHANGED <<tracker, now, mode, config, issue, issues, staleness, validation, codec, nextId, hist>>

NextConcurrent ==
    \/ (Tick /\ Started = 0)
    \/ (HandleIssue /\ Started < 2)
    \/ Switch
    \/ AddLabel
    \/ RemoveLabel
    \/ FindNotification
    \/ DeleteComment
    \/ CreateComment
    \/ ClearMilestone

SpecConcurrent == Init /\ [][NextConcurrent]_vars

\* ------------------------------------------------------------ properties

CountCalls(cs, name) == Cardinality({k \in DOMAIN cs : cs[k].call = name})

HasCall(cs, name, arg) == \E k \in DOMAIN cs : cs[k].call = name /\ cs[k].arg = arg

\* C1 (the claim as stated): whenever a run that reached a decision has
\* completed without error and the next run starts on the resulting object
\* at the same clock value, the next run issues no mutating tracker call
\* and, when it reaches a decision, decides the same state, label and
\* notification.
C1_Idempotent ==
    \A k \in DOMAIN hist :
        (/\ k + 1 \in DOMAIN hist
         /\ hist[k].decided /\ ~hist[k].err
         /\ hist[k + 1].t = hist[k].t)
        => /\ hist[k + 1].calls = <<>>
           /\ hist[k + 1].decided =>
                 /\ hist[k + 1].state = hist[k].state
                 /\ hist[k + 1].label = hist[k].label
                 /\ hist[k + 1].notification = hist[k].notification

TriadLabels == kindMap \cup priorityMap \cup SigLabels

\* C2 (the claim as stated): a run that completes without error on an object
\* with no kind, priority or sig label, no state label and no notification
\* comment decides NeedsLabeling, adds the incomplete-labels label and issues
\* exactly one CreateComment call.
C2_FirstRunOfLabellessObject ==
    \A k \in DOMAIN hist :
        (/\ hist[k].decided /\ ~hist[k].err
         /\ hist[k].preLabels \cap (TriadLabels \cup StateLabelSet) = {}
         /\ ~hist[k].preHasNotification)
        => /\ hist[k].state = milestoneNeedsLabeling
           /\ HasCall(hist[k].calls, "AddLabel", milestoneLabelsIncompleteLabel)
           /\ milestoneLabelsIncompleteLabel \in hist[k].postLabels
           /\ CountCalls(hist[k].calls, "CreateComment") = 1

\* The refresh interval of a decided state, as issueChange sets it.
Elapsed(k) == hist[k + 1].t - hist[k].t

\* C3 (the claim as stated): two successive runs that complete without
\* error, start from an object with no notification comment, compute equal
\* notifications and are less than the refresh interval apart issue exactly
\* one CreateComment call, in the first run.
C3_NotificationDedup ==
    \A k \in DOMAIN hist :
        (/\ k + 1 \in DOMAIN hist
         /\ ~hist[k].preHasNotification
         /\ hist[k].decided /\ ~hist[k].err
         /\ hist[k + 1].decided /\ ~hist[k + 1].err
         /\ NotificationEqual(hist[k].notification, hist[k + 1].notification)
         /\ WarnOnInterval(hist[k + 1].state) => Elapsed(k) < WarningInterval)
        => /\ CountCalls(hist[k].calls, "CreateComment") = 1
           /\ CountCalls(hist[k + 1].calls, "CreateComment") = 0

\* C4: in every reachable state at most one comment of the object is a
\* notification comment of the bot (bot-authored, named MilestoneNotifier),
\* whichever tracker calls failed.
C4_SingleNotificationComment ==
    Cardinality(NotificationComments(comments)) <= 1

\* C4's case: a run whose DeleteComment failed, followed by a run that
\* deleted the old notification and created a new one.
C4_Witness ==
    /\ Len(hist) = 2
    /\ hist[1].err
    /\ \E k \in DOMAIN hist[1].calls :
           hist[1].calls[k].call = "DeleteComment" /\ ~hist[1].calls[k].ok
    /\ ~hist[2].err
    /\ CountCalls(hist[2].calls, "DeleteComment") = 1
    /\ CountCalls(hist[2].calls, "CreateComment") = 1
    /\ Cardinality(NotificationComments(comments)) = 1

\* C5: after a run that reached a decision and completed without error the
\* state labels on the object are exactly the label of the decided state:
\* that one label, or none when the state is Current.
C5_StateLabelAfterRun ==
    \A k \in DOMAIN hist :
        (hist[k].decided /\ ~hist[k].err)
        => /\ hist[k].label = StateLabel(hist[k].state)
           /\ StateLabelsOf(hist[k].postLabels) =
                  (IF hist[k].label = "" THEN {} ELSE {hist[k].label})
           /\ Cardinality(StateLabelsOf(hist[k].postLabels)) <= 1

\* C5's case: a run that started from an object carrying two state labels,
\* neither the decided one, and left only the decided one.
C5_Witness ==
    \E k \in DOMAIN hist :
        /\ hist[k].decided /\ ~hist[k].err
        /\ Cardinality(StateLabelsOf(hist[k].preLabels)) = 2
        /\ hist[k].label # ""
        /\ hist[k].label \notin hist[k].preLabels
        /\ StateLabelsOf(hist[k].postLabels) = {hist[k].label}

\* C6 (the claim as stated): in every reachable state at most one state
\* label is set on the object.
C6_AtMostOneStateLabelAlways ==
    Cardinality(StateLabelsOf(labels)) <= 1

\* Whether the label step is not under way and did not fail: no run has
\* started, or the latest run's updateMilestoneStateLabel has returned nil.
LabelStepDone ==
    \/ pc \in {"comment", "deleteComment", "createComment", "clearMilestone"}
    \/ pc = "idle" /\ hist = <<>>
    \/ pc = "idle" /\ hist # <<>> /\ hist[Len(hist)].labelDone

\* C6 (amended): at most one state label is set on the object whenever the
\* label step is not under way and did not fail; between the AddLabel and
\* the RemoveLabel calls of a run, and after a failed RemoveLabel, more than
\* one may be set.
C6_AtMostOneStateLabelOutsideLabelStep ==
    LabelStepDone => Cardinality(StateLabelsOf(labels)) <= 1

\* C6's case: the label step has just replaced one state label by another.
C6_Witness ==
    /\ pc = "comment"
    /\ \E k \in DOMAIN calls : calls[k].call = "AddLabel" /\ calls[k].ok
    /\ \E k \in DOMAIN calls : calls[k].call = "RemoveLabel" /\ calls[k].ok
    /\ hist # <<>> /\ hist[1].err
    /\ Cardinality(StateLabelsOf(labels)) = 1

\* C7: for an object carrying the blocker label the engine never decides
\* NeedsRemoval and the run never calls ClearMilestone, in every mode, for
\* every label set and event history.
C7_BlockerImmunity ==
    blockerLabel \in e.labels
    => /\ icc.state # milestoneNeedsRemoval
       /\ ~change.removeFromMilestone
       /\ CountCalls(calls, "ClearMilestone") = 0

\* C7's case: a blocker with incomplete labels whose incomplete-labels label
\* the bot applied longer ago than the grace period.
C7_Witness ==
    /\ blockerLabel \in e.labels
    /\ milestoneLabelsIncompleteLabel \in e.labels
    /\ checkLabels(e.labels).labelErrors # <<>>
    /\ \E k \in DOMAIN events :
           /\ IsBotLabeled(events[k], milestoneLabelsIncompleteLabel)
           /\ events[k].createdAt + LabelGracePeriod < now
    /\ hist # <<>> /\ ~hist[1].err
    /\ icc.state = milestoneNeedsLabeling

GracePeriodOf(labelName) ==
    IF labelName = milestoneLabelsIncompleteLabel
    THEN LabelGracePeriod ELSE ApprovalGracePeriod

\* The position of the last listed application of labelName by the bot.
IsLastBotLabeled(k, labelName) ==
    /\ IsBotLabeled(events[k], labelName)
    /\ \A j \in DOMAIN events : j > k => ~IsBotLabeled(events[j], labelName)

\* The state right after the decision, before any tracker call of the run.
JustDecided == pc = "addLabel"

\* C8: for a non-blocker carrying the state label, last applied by the bot
\* at T, gracePeriodRemaining is known and equals (T + G) - now: positive
\* while now < T + G, non-positive from now = T + G on.
C8_GracePeriodRemaining ==
    (/\ JustDecided
     /\ icc.graceLabel # ""
     /\ blockerLabel \notin e.labels
     /\ icc.graceLabel \in e.labels)
    => \A k \in DOMAIN events :
           IsLastBotLabeled(k, icc.graceLabel)
           => LET T == events[k].createdAt
                  G == GracePeriodOf(icc.graceLabel)
              IN  /\ icc.removeAfter.known
                  /\ icc.removeAfter.value = (T + G) - now
                  /\ now < T + G => icc.removeAfter.value > 0
                  /\ now >= T + G => icc.removeAfter.value <= 0

\* C8's case: the bot applied the incomplete-labels label twice and the
\* grace period counted from the later application has run out.
C8_Witness ==
    /\ JustDecided
    /\ icc.graceLabel = milestoneLabelsIncompleteLabel
    /\ blockerLabel \notin e.labels
    /\ milestoneLabelsIncompleteLabel \in e.labels
    /\ Len(events) = 2
    /\ IsBotLabeled(events[1], milestoneLabelsIncompleteLabel)
    /\ IsLastBotLabeled(2, milestoneLabelsIncompleteLabel)
    /\ events[2].createdAt > events[1].createdAt
    /\ icc.removeAfter.known
    /\ icc.removeAfter.value < 0

TriadIncomplete == checkLabels(e.labels).labelErrors # <<>>

\* The removal warning of the posted message.
IncompleteWarningShown ==
    change.notification.Context.body.incompleteLabelsRemovalWarning.present

C10_NonPositiveExpires ==
    (JustDecided /\ icc.graceLabel # "" /\ icc.removeAfter.known)
    => /\ icc.removeAfter.value <= 0 => icc.state = milestoneNeedsRemoval
       /\ icc.removeAfter.value > 0 => icc.state # milestoneNeedsRemoval

\* C10 (amended): both callers decide NeedsRemoval exactly for a known
\* negative remaining value; zero and every positive value keep the warning
\* state of the branch (NeedsLabeling, NeedsApproval).
C10_NegativeExpires ==
    (JustDecided /\ icc.graceLabel # "" /\ icc.removeAfter.known)
    => /\ icc.removeAfter.value < 0 => icc.state = milestoneNeedsRemoval
       /\ icc.removeAfter.value >= 0 =>
              icc.state = (IF icc.graceLabel = milestoneLabelsIncompleteLabel
                           THEN milestoneNeedsLabeling ELSE milestoneNeedsApproval)

\* C10's case: an unapproved non-blocker whose approval grace period ends
\* exactly now.
C10_Witness ==
    /\ JustDecided
    /\ icc.graceLabel = milestoneNeedsApprovalLabel
    /\ icc.removeAfter.known /\ icc.removeAfter.value = 0
    /\ icc.state = milestoneNeedsApproval

TriadComplete == checkLabels(e.labels).labelErrors = <<>>

Unapproved == TriadComplete /\ statusApprovedLabel \notin e.labels

\* The removal warning of the posted needs-approval message.
UnapprovedWarningShown ==
    change.notification.Context.body.unapprovedRemovalWarning.present

\* C11 (the claim as stated): with a complete triad and no approval label,
\* in every mode, a blocker is NeedsApproval without removal warning; a
\* non-blocker is NeedsApproval with the removal warning while the remaining
\* approval grace period is unknown or non-negative and NeedsRemoval once it
\* is negative; no section of a later check is enabled.
C11_UnapprovedRule ==
    (JustDecided /\ Unapproved)
    => /\ icc.enabledSections \subseteq
              {"summarizeLabels", "warnUnapproved", "removeUnapproved"}
       /\ blockerLabel \in e.labels
              => (icc.state = milestoneNeedsApproval /\ ~UnapprovedWarningShown)
       /\ (blockerLabel \notin e.labels
           /\ (~icc.removeAfter.known \/ icc.removeAfter.value >= 0))
              => (icc.state = milestoneNeedsApproval /\ UnapprovedWarningShown)
       /\ (blockerLabel \notin e.labels
           /\ icc.removeAfter.known /\ icc.removeAfter.value < 0)
              => icc.state = milestoneNeedsRemoval

\* C11 (amended): as stated, but the NeedsApproval message of a non-blocker
\* carries the removal warning iff the remaining grace period is known; with
\* an unknown remaining value the state is NeedsApproval without the warning.
C11_UnapprovedRuleKnown ==
    (JustDecided /\ Unapproved)
    => /\ icc.enabledSections \subseteq
              {"summarizeLabels", "warnUnapproved", "removeUnapproved"}
       /\ blockerLabel \in e.labels
              => (icc.state = milestoneNeedsApproval /\ ~UnapprovedWarningShown)
       /\ (blockerLabel \notin e.labels
           /\ (~icc.removeAfter.known \/ icc.removeAfter.value >= 0))
              => /\ icc.state = milestoneNeedsApproval
                 /\ UnapprovedWarningShown <=> icc.removeAfter.known
       /\ (blockerLabel \notin e.labels
           /\ icc.removeAfter.known /\ icc.removeAfter.value < 0)
              => (icc.state = milestoneNeedsRemoval /\ ~UnapprovedWarningShown)

\* C11's case: an unapproved non-blocker in freeze, without the in-progress
\* label, inside its approval grace period.
C11_Witness ==
    /\ JustDecided /\ Unapproved
    /\ blockerLabel \notin e.labels
    /\ statusInProgressLabel \notin e.labels
    /\ mode = milestoneModeFreeze
    /\ icc.removeAfter.known /\ icc.removeAfter.value > 0
    /\ icc.state = milestoneNeedsApproval
    /\ icc.enabledSections = {"summarizeLabels", "warnUnapproved"}
    /\ UnapprovedWarningShown

\* Whether the listed history holds no application of labelName by the bot.
NoBotLabeled(labelName) ==
    \A k \in DOMAIN events : ~IsBotLabeled(events[k], labelName)

\* C12: when the state label of the grace period is set on a non-blocker
\* and the listed history holds no 'labeled' event of the bot for it, the
\* remaining grace period is unknown, the engine decides the warning state
\* of the branch (NeedsLabeling, NeedsApproval), never NeedsRemoval, and the
\* run does not call ClearMilestone.
C12_HistoryUnavailable ==
    (/\ icc.graceLabel # ""
     /\ icc.graceLabel \in e.labels
     /\ blockerLabel \notin e.labels
     /\ NoBotLabeled(icc.graceLabel))
    => /\ ~icc.removeAfter.known
       /\ icc.state = (IF icc.graceLabel = milestoneLabelsIncompleteLabel
                       THEN milestoneNeedsLabeling ELSE milestoneNeedsApproval)
       /\ ~change.removeFromMilestone
       /\ CountCalls(calls, "ClearMilestone") = 0

\* C12's case: a finished run on a non-blocker whose incomplete-labels label
\* was applied by a human longer ago than the grace period.
C12_Witness ==
    /\ hist # <<>> /\ ~hist[1].err /\ hist[1].decided
    /\ icc.graceLabel = milestoneLabelsIncompleteLabel
    /\ milestoneLabelsIncompleteLabel \in e.labels
    /\ blockerLabel \notin e.labels
    /\ NoBotLabeled(milestoneLabelsIncompleteLabel)
    /\ \E k \in DOMAIN events :
           /\ events[k].event = "labeled"
           /\ events[k].actor = humanName
           /\ events[k].label = milestoneLabelsIncompleteLabel
           /\ events[k].createdAt + LabelGracePeriod < now
    /\ icc.state = milestoneNeedsLabeling

\* C13 (the claim as stated): the grace period of a non-blocker starts at
\* defaultStart (now) when the state label is not set on the object, and
\* otherwise at the creation time of the chronologically latest 'labeled'
\* event of the bot for the label, in whichever order the events are listed.
C13_StartSelection ==
    (JustDecided /\ icc.graceLabel # "" /\ blockerLabel \notin e.labels)
    => IF icc.graceLabel \notin e.labels
       THEN /\ icc.removeAfter.known
            /\ icc.removeAfter.value = (now + GracePeriodOf(icc.graceLabel)) - now
       ELSE \A k \in DOMAIN events :
                (/\ IsBotLabeled(events[k], icc.graceLabel)
                 /\ \A j \in DOMAIN events :
                        IsBotLabeled(events[j], icc.graceLabel)
                        => events[j].createdAt <= events[k].createdAt)
                => /\ icc.removeAfter.known
                   /\ icc.removeAfter.value =
                          (events[k].createdAt + GracePeriodOf(icc.graceLabel)) - now

Approved == TriadComplete /\ statusApprovedLabel \in e.labels

\* C14: for an object with a complete triad and the approval label, in mode
\* dev the engine decides Current with exactly the section summarizeLabels
\* enabled, whatever the in-progress label, the blocker label and the event
\* history are.
C14_DevPhase ==
    (JustDecided /\ Approved /\ mode = milestoneModeDev)
    => /\ icc.state = milestoneCurrent
       /\ icc.enabledSections = {"summarizeLabels"}
       /\ change.label = ""
       /\ ~change.removeFromMilestone

\* C14's case: an approved blocker in dev without the in-progress label, with
\* a history of two events.
C14_Witness ==
    /\ JustDecided /\ Approved /\ mode = milestoneModeDev
    /\ blockerLabel \in e.labels
    /\ statusInProgressLabel \notin e.labels
    /\ Len(events) = 2
    /\ icc.state = milestoneCurrent

\* C15: for an object with a complete triad and the approval label but no
\* blocker label, in mode freeze the engine decides NeedsRemoval with exactly
\* the sections summarizeLabels and removeNonBlocker enabled, whatever the
\* in-progress label is.
C15_FreezePhase ==
    (JustDecided /\ Approved /\ blockerLabel \notin e.labels
     /\ mode = milestoneModeFreeze)
    => /\ icc.state = milestoneNeedsRemoval
       /\ icc.enabledSections = {"summarizeLabels", "removeNonBlocker"}
       /\ change.removeFromMilestone

\* C15's case: an approved non-blocker in freeze that carries the
\* in-progress label.
C15_Witness ==
    /\ JustDecided /\ Approved /\ blockerLabel \notin e.labels
    /\ mode = milestoneModeFreeze
    /\ statusInProgressLabel \in e.labels
    /\ icc.state = milestoneNeedsRemoval
    /\ change.label = milestoneRemovedLabel

\* C16 (the claim as stated): a run in which no tracker call fails calls
\* ClearMilestone exactly once when it decided NeedsRemoval and not at all
\* otherwise, whether or not the object had a notification comment.
C16_MilestoneClearing ==
    \A k \in DOMAIN hist :
        (hist[k].decided /\ ~hist[k].err)
        => CountCalls(hist[k].calls, "ClearMilestone") =
               (IF hist[k].state = milestoneNeedsRemoval THEN 1 ELSE 0)

\* C17 (the claim as stated): for an approved non-blocker with a complete
\* triad in mode slush the section warnNonBlockerRemoval is enabled; the
\* state is NeedsAttention with the missing-status section enabled iff the
\* in-progress label is absent, and Current otherwise.
C17_SlushNonBlocker ==
    (JustDecided /\ Approved /\ blockerLabel \notin e.labels
     /\ mode = milestoneModeSlush)
    => /\ "warnNonBlockerRemoval" \in icc.enabledSections
       /\ IF statusInProgressLabel \notin e.labels
          THEN /\ icc.state = milestoneNeedsAttention
               /\ "warnMissingInProgress" \in icc.enabledSections
          ELSE /\ icc.state = milestoneCurrent
               /\ "warnMissingInProgress" \notin icc.enabledSections

\* The time since the issue was last modified.
SinceLastModification ==
    now - lastModificationTime(comments, events, reviewComments, obj.createdAt, obj.isPR)

\* C18 (the claim as stated): for an approved blocker with a complete triad
\* and the in-progress label, in mode slush or freeze with a positive update
\* interval, the section warnUpdateInterval is enabled; the section
\* warnUpdateRequired is enabled and the state is NeedsAttention when the
\* time since the last modification exceeds the interval, else the section
\* is absent and the state is Current.
C18_BlockerStaleness ==
    (JustDecided /\ Approved /\ blockerLabel \in e.labels
     /\ statusInProgressLabel \in e.labels
     /\ mode \in {milestoneModeSlush, milestoneModeFreeze}
     /\ updateInterval(mode) > 0)
    => /\ "warnUpdateInterval" \in icc.enabledSections
       /\ IF SinceLastModification > updateInterval(mode)
          THEN /\ "warnUpdateRequired" \in icc.enabledSections
               /\ icc.state = milestoneNeedsAttention
          ELSE /\ "warnUpdateRequired" \notin icc.enabledSections
               /\ icc.state = milestoneCurrent

\* C19: when the decided state is NeedsRemoval the message renders exactly
\* the enabled sections whose names begin with "remove" (summarizeLabels and
\* the warn sections are left out); for every other state it renders every
\* enabled section.
C19_RemovalSuppressesWarnings ==
    JustDecided
    => LET rendered == change.notification.Context.body.sections
       IN  IF icc.state = milestoneNeedsRemoval
           THEN /\ rendered = icc.enabledSections \cap
                        {"removeUnapproved", "removeNonBlocker", "removeIncompleteLabels"}
                /\ rendered # {}
                /\ "summarizeLabels" \notin rendered
           ELSE rendered = icc.enabledSections

\* C19's case: an unapproved non-blocker past its grace period, whose label
\* summary is enabled but not rendered.
C19_Witness ==
    /\ JustDecided
    /\ icc.state = milestoneNeedsRemoval
    /\ icc.enabledSections = {"summarizeLabels", "removeUnapproved"}
    /\ change.notification.Context.body.sections = {"removeUnapproved"}

\* Whether the notification comment at position k of the object is current
\* for the run: structurally equal to the computed notification and, when a
\* refresh interval applies to the decided state, younger than the interval.
ExistingIsCurrent(k) ==
    LET existing == ParseNotification(comments[k].body)
    IN  /\ existing.Name = change.notification.Name
        /\ existing.Arguments = change.notification.Arguments
        /\ existing.Context = change.notification.Context
        /\ \/ ~WarnOnInterval(icc.state)
           \/ now - comments[k].createdAt < WarningInterval

\* The step of a run that looks for the notification comment and finds one.
FoundNotification == pc = "comment" /\ pc' # "comment" /\ comment' # 0

\* C20: a run keeps the existing notification comment (goes on without
\* deleting it) iff the comment is structurally equal to the computed
\* notification and either no refresh interval applies or the comment's age
\* is strictly less than the interval; with no existing notification the
\* function answers "not current".
C20_NotificationIsCurrent ==
    /\ [](~notificationIsCurrent(NoNotification, change.notification, FALSE, 0,
                                 change.commentInterval, now))
    /\ [][FoundNotification
          => /\ pc' \in {"clearMilestone", "deleteComment"}
             /\ pc' = "clearMilestone" <=> ExistingIsCurrent(comment')]_vars

\* C20's case: a run found an equal notification whose age is positive and
\* less than the refresh interval, and kept it.
C20_Witness ==
    /\ pc = "clearMilestone"
    /\ comment # 0
    /\ change.commentInterval.known
    /\ now - comments[comment].createdAt > 0
    /\ ExistingIsCurrent(comment)
    /\ CountCalls(calls, "CreateComment") = 0

\* The latest run has finished: pre and calls are its snapshot and its calls.
RunFinished == pc = "idle" /\ hist # <<>>

LastRun == hist[Len(hist)]

Succeeded(name) == {calls[k].arg : k \in {j \in DOMAIN calls : calls[j].call = name /\ calls[j].ok}}

\* C21 (the claim as stated): after a run in which a tracker call failed the
\* labels, the comments and the milestone of the object are what they were
\* before the run.
C21_NoMutationOnFailure ==
    (RunFinished /\ LastRun.err)
    => /\ labels = pre.labels
       /\ comments = pre.comments
       /\ milestone = pre.milestone

\* What the calls of the run that succeeded leave of the tracker state the
\* run started from.
LabelsApplied == (pre.labels \cup Succeeded("AddLabel")) \ Succeeded("RemoveLabel")

CommentsKept ==
    IF Succeeded("DeleteComment") # {}
    THEN SelectSeq(pre.comments, LAMBDA c : ~IsNotificationComment(c))
    ELSE pre.comments

CommentsApplied ==
    IF Succeeded("CreateComment") # {}
    THEN /\ Len(comments) = Len(CommentsKept) + 1
         /\ SubSeq(comments, 1, Len(CommentsKept)) = CommentsKept
         /\ comments[Len(comments)].author = botName
         /\ comments[Len(comments)].body = NotificationString(change.notification)
    ELSE comments = CommentsKept

\* C21 (amended): a run stops at the first tracker call that fails and
\* undoes nothing: after it the tracker holds the state the run started from
\* changed by exactly the calls that succeeded before the failure.  It is
\* unchanged when the failing call was a read or the first mutating call;
\* the milestone is never changed by a failed run.
C21_FailedRunKeepsPrefix ==
    RunFinished
    => /\ \A k \in DOMAIN calls :
              ~calls[k].ok => (k = Len(calls) /\ LastRun.err)
       /\ LastRun.err
              => /\ labels = LabelsApplied
                 /\ CommentsApplied
                 /\ milestone = pre.milestone
                 /\ (\A k \in DOMAIN calls : ~calls[k].ok)
                        => /\ labels = pre.labels
                           /\ comments = pre.comments

\* C21's case: a run added its state label and then failed to remove the
\* stale one, leaving both on the object.
C21_Witness ==
    /\ RunFinished /\ LastRun.err
    /\ Len(calls) = 2
    /\ calls[1].call = "AddLabel" /\ calls[1].ok
    /\ calls[2].call = "RemoveLabel" /\ ~calls[2].ok
    /\ labels = pre.labels \cup {calls[1].arg}
    /\ labels # pre.labels

\* C22 (the claim as stated): when a run that reached a decision fails and
\* the retry, with nothing else changed and at the same time, completes
\* without error, the retry reaches the decision of the failed run and
\* leaves what an uninterrupted run would have left: the state label of that
\* decision and, for NeedsRemoval, the milestone cleared.  Both runs start
\* with a bot notification on the object, so that neither stops at the
\* missing-notification return of maintainIssue.
C22_ConvergenceUnderRetry ==
    \A k \in DOMAIN hist :
        (/\ k + 1 \in DOMAIN hist
         /\ hist[k].decided /\ hist[k].err
         /\ hist[k].preHasNotification /\ hist[k + 1].preHasNotification
         /\ ~hist[k + 1].err
         /\ hist[k + 1].t = hist[k].t)
        => /\ hist[k + 1].decided
           /\ hist[k + 1].state = hist[k].state
           /\ StateLabelsOf(hist[k + 1].postLabels) =
                  (IF hist[k].label = "" THEN {} ELSE {hist[k].label})
           /\ hist[k].state = milestoneNeedsRemoval
                  => HasCall(hist[k + 1].calls, "ClearMilestone", "")

\* C23: in the batch scan the loop stops only when every issue FindIssues
\* returned has been handed to HandleIssue, whatever errors the runs
\* returned; and the run on an issue that follows a failed run decides from
\* that issue's own labels and events and has, when it ends, changed the
\* issue's labels by its own successful calls only.
ScanStopped == pc = "idle" /\ ~ENABLED NextScan

AfterFailedRun == hist # <<>> /\ hist[Len(hist)].err

SucceededIn(cs, name) ==
    {cs[k].arg : k \in {j \in DOMAIN cs : cs[j].call = name /\ cs[j].ok}}

C23_FailureIsolation ==
    /\ ScanStopped => (issues = <<>> /\ Len(hist) = MaxRuns)
    /\ (AfterFailedRun /\ JustDecided)
       => /\ icc = issueChangeConfig(labels, events, mode, now)
          /\ change = issueChange(icc)
          /\ e.labels = labels
          /\ calls = <<>>
    /\ \A k \in DOMAIN hist :
           (k > 1 /\ hist[k - 1].err)
           => hist[k].postLabels =
                  (hist[k].preLabels \cup SucceededIn(hist[k].calls, "AddLabel"))
                      \ SucceededIn(hist[k].calls, "RemoveLabel")

C23_Witness ==
    /\ ScanStopped
    /\ hist[1].err
    /\ hist[1].preLabels # hist[2].preLabels
    /\ hist[2].decided /\ ~hist[2].err
    /\ hist[2].calls # <<>>

\* What the configuration surface requires, stated on the configuration
\* itself.
DurationsPositive(cfg) ==
    /\ cfg.warningInterval > 0
    /\ cfg.labelGracePeriod > 0
    /\ cfg.approvalGracePeriod > 0
    /\ cfg.slushUpdateInterval > 0
    /\ cfg.freezeUpdateInterval > 0

ModesWellFormed(cfg) ==
    \A title \in DOMAIN cfg.modes : cfg.modes[title] \in {"dev", "slush", "freeze"}

ConfigWellFormed(cfg) ==
    DurationsPositive(cfg) /\ cfg.freezeDate # "" /\ ModesWellFormed(cfg)

\* The run has issued no tracker call and left the tracker as it found it.
NoTrackerCall(r) == r.calls = <<>> /\ r.reads = {}

TrackerUntouched ==
    /\ labels = pre.labels
    /\ comments = pre.comments
    /\ milestone = pre.milestone

\* C24: validation succeeds exactly when the five durations are positive,
\* the freeze date is not empty and the phase mapping is well formed; under
\* a configuration that fails it no run ever issues a tracker call, reads
\* included, and HandleIssue, for an open issue with a release milestone,
\* returns the error and decides nothing.
C24_ValidationFailsFast ==
    /\ (Validate(config) = {}) <=> ConfigWellFormed(config)
    /\ ~ConfigWellFormed(config)
       => /\ pc = "idle"
          /\ calls = <<>>
          /\ RunFinished
             => /\ NoTrackerCall(LastRun)
                /\ ~LastRun.decided
                /\ TrackerUntouched
                /\ (issue.state = "open" /\ pre.milestone) => LastRun.err

C24_Witness ==
    /\ RunFinished
    /\ config.warningInterval = 0
    /\ DurationsPositive([config EXCEPT !.warningInterval = 1])
    /\ config.freezeDate # "" /\ ModesWellFormed(config)
    /\ issue.state = "open" /\ pre.milestone
    /\ issue.milestone = targetedMilestone
    /\ LastRun.err /\ NoTrackerCall(LastRun)

\* The event is one the filters of the claim name: the issue is closed, or
\* has no release milestone, or its milestone is not targeted.
Dropped ==
    \/ issue.state = "closed"
    \/ ~pre.milestone
    \/ issue.milestone \notin DOMAIN config.modes

\* The run returned nil, having decided nothing and called nothing.
Ignored(r) == ~r.err /\ ~r.decided /\ NoTrackerCall(r)

\* C25 (the claim as stated): for a closed issue, an issue without a release
\* milestone or one whose milestone is not targeted, HandleIssue returns nil
\* without any tracker call and without a decision.
C25_InboundFilter ==
    (RunFinished /\ Dropped) => (Ignored(LastRun) /\ TrackerUntouched)

\* C25 (amended): such an event never leads to a tracker call or a decision;
\* HandleIssue returns nil, except that for an open issue with a release
\* milestone that is not targeted it returns the validation error when the
\* configuration is invalid, the validation coming before the lookup of the
\* milestone.
C25_InboundFilterValidatedFirst ==
    (RunFinished /\ Dropped)
    => /\ NoTrackerCall(LastRun)
       /\ ~LastRun.decided
       /\ TrackerUntouched
       /\ LastRun.err <=> /\ issue.state = "open"
                          /\ pre.milestone
                          /\ ~ConfigWellFormed(config)

C25_Witness ==
    /\ RunFinished
    /\ issue.state = "open" /\ pre.milestone
    /\ issue.milestone = otherMilestone
    /\ ConfigWellFormed(config)
    /\ Ignored(LastRun)

\* C26 (the claim as stated): an object is ignored iff it is a pull request,
\* or it has no milestone, or its milestone differs from the active one.
C26_IgnoreObject ==
    RunFinished
    => (Ignored(LastRun) <=> \/ issue.isPR
                             \/ ~pre.milestone
                             \/ issue.milestone # targetedMilestone)

\* What HandleIssue does instead: it drops an object iff it is closed, or it
\* has no release milestone, or, the configuration being valid, its milestone
\* is not a targeted one; a pull request is handled as an issue is.
C26_IgnoredObjects ==
    RunFinished
    => (Ignored(LastRun) <=> \/ issue.state = "closed"
                             \/ ~pre.milestone
                             \/ /\ ConfigWellFormed(config)
                                /\ issue.milestone \notin DOMAIN config.modes)

\* The labels of an enumeration the event's issue carries.
Present(labelMap) == e.labels \cap labelMap

InErrors(what) == \E k \in DOMAIN icc.labelErrors : icc.labelErrors[k] = what

UniqueLabelRule(labelMap) ==
    LET u == uniqueLabelName(e.labels, labelMap)
        n == Cardinality(Present(labelMap))
    IN  /\ n = 0 => (u.name = "" /\ ~u.err)
        /\ n = 1 => (Present(labelMap) = {u.name} /\ ~u.err)
        /\ n >= 2 => u.err

\* C27: uniqueLabelName answers the one label of the enumeration that is
\* present, "" without error when none is, and an error when two or more
\* are; the decision carries the kind (the priority) error exactly when the
\* number of kind (priority) labels present is not one, the same error for
\* none as for several, and checkLabels names the label when it is one.
C27_UniqueLabel ==
    JustDecided
    => /\ UniqueLabelRule(kindMap)
       /\ UniqueLabelRule(priorityMap)
       /\ InErrors("kind") <=> Cardinality(Present(kindMap)) # 1
       /\ InErrors("priority") <=> Cardinality(Present(priorityMap)) # 1
       /\ Cardinality(Present(kindMap)) = 1
              => Present(kindMap) = {checkLabels(e.labels).kindLabel}
       /\ Cardinality(Present(priorityMap)) = 1
              => Present(priorityMap) = {checkLabels(e.labels).priorityLabel}

C27_Witness ==
    /\ JustDecided
    /\ Cardinality(Present(kindMap)) = 2
    /\ Cardinality(Present(priorityMap)) = 1
    /\ Present(SigLabels) # {}
    /\ icc.labelErrors = <<"kind">>

Largest(S) == CHOOSE x \in S : \A y \in S : y <= x

HumanUpdates(cs) == {cs[k].updatedAt : k \in {j \in DOMAIN cs : cs[j].author # botName}}

Reopenings == {events[k].createdAt : k \in {j \in DOMAIN events : events[j].event = "reopened"}}

\* C29: the time lastModificationTime returns is the largest of the object's
\* creation time, the update times of the issue comments the bot did not
\* write, the times of the 'reopened' events and, for a pull request only,
\* the update times of the review comments the bot did not write.
C29_LastModificationTime ==
    lastModif.state = "ok"
    => lastModif.time =
          Largest({obj.createdAt} \cup HumanUpdates(comments) \cup Reopenings
                  \cup (IF obj.isPR THEN HumanUpdates(reviewComments) ELSE {}))

C29_Witness ==
    /\ lastModif.state = "ok"
    /\ obj.isPR
    /\ Len(comments) = 2
    /\ comments[1].author = humanName /\ comments[1].updatedAt = 2
    /\ comments[2].author = botName /\ comments[2].updatedAt = 3
    /\ Reopenings = {1}
    /\ HumanUpdates(reviewComments) = {0}
    /\ lastModif.time = 2

\* The run has posted its notification: the comment is the last one.
Posted == Len(comments) > Len(OtherComments)

PostedBody == comments[Len(comments)].body

InNormalForm(n) ==
    /\ n.Name # ""
    /\ ToUpper(n.Name) = n.Name
    /\ ~n.Arguments.padded
    /\ ~n.Context.padded

CallRank(name) ==
    CASE name = "AddLabel" -> 1
      [] name = "RemoveLabel" -> 2
      [] name = "DeleteComment" -> 3
      [] name = "CreateComment" -> 4
      [] name = "ClearMilestone" -> 5

\* C31: the mutating calls of a run come in the order AddLabel of the
\* desired state label, RemoveLabel of other state labels, DeleteComment,
\* CreateComment, ClearMilestone, each at most once but RemoveLabel; a
\* CreateComment directly follows a DeleteComment that succeeded; and a call
\* that failed is the last call of its run, which has ended.
C31_ApplyOrderAndAbort ==
    /\ \A j, k \in DOMAIN calls :
           j < k => \/ CallRank(calls[j].call) < CallRank(calls[k].call)
                    \/ /\ calls[j].call = "RemoveLabel"
                       /\ calls[k].call = "RemoveLabel"
                       /\ calls[j].arg # calls[k].arg
    /\ \A k \in DOMAIN calls :
           /\ calls[k].call = "AddLabel" => calls[k].arg = change.label
           /\ calls[k].call = "RemoveLabel"
                  => calls[k].arg \in StateLabelSet \ {change.label}
           /\ calls[k].call = "CreateComment"
                  => /\ k > 1
                     /\ calls[k - 1].call = "DeleteComment"
                     /\ calls[k - 1].ok
           /\ ~calls[k].ok => (k = Len(calls) /\ pc = "idle")

C31_Witness ==
    /\ RunFinished
    /\ ~LastRun.err
    /\ Len(calls) = 5
    /\ {calls[k].call : k \in DOMAIN calls} =
           {"AddLabel", "RemoveLabel", "DeleteComment", "CreateComment",
            "ClearMilestone"}

\* A run is under way or has ended.
RunStarted == pc # "idle" \/ hist # <<>>

LabelCalls == {k \in DOMAIN calls : calls[k].call \in {"AddLabel", "RemoveLabel"}}

\* The state labels the decision wants on the object.
DesiredStateLabels == IF change.label = "" THEN {} ELSE {change.label}

\* C32: a run changes no label outside the state-label set: the approval
\* label and every other label stay as they were.  AddLabel is called at
\* most once, for the desired label, and only when that label is not empty
\* and the object lacked it; RemoveLabel only for a state label other than
\* the desired one that the object carried; and no label call is issued
\* when the object carried exactly the desired state label, or none when
\* none is desired.
C32_LabelReconcilerFrame ==
    RunStarted
    => /\ labels \ StateLabelSet = pre.labels \ StateLabelSet
       /\ labels \subseteq pre.labels \cup DesiredStateLabels
       /\ CountCalls(calls, "AddLabel") <= 1
       /\ \A k \in LabelCalls :
              IF calls[k].call = "AddLabel"
              THEN /\ calls[k].arg = change.label
                   /\ change.label # ""
                   /\ change.label \notin pre.labels
              ELSE /\ calls[k].arg \in StateLabelSet \ {change.label}
                   /\ calls[k].arg \in pre.labels
       /\ (pc # "idle" /\ StateLabelsOf(pre.labels) = DesiredStateLabels)
              => LabelCalls = {}

C32_Witness ==
    /\ pc = "comment"
    /\ change.label # ""
    /\ StateLabelsOf(pre.labels) = {change.label}
    /\ statusApprovedLabel \in labels
    /\ calls = <<>>

\* ---- C33: duplicate concurrent delivery.  Once two invocations for the
\* same object, interleaved in any way, have both completed, the issue has at
\* most one notification of the bot and at most one milestone state label.
BothCompleted == pc = "idle" /\ other.pc = "idle" /\ Len(hist) >= 2

Overlapped == \E k \in 1..(Len(hist) - 1) :
                  /\ hist[k].decided /\ hist[k + 1].decided
                  /\ hist[k + 1].preLabels # hist[k].postLabels

AtMostOneNotification == Cardinality(NotificationComments(comments)) <= 1

AtMostOneStateLabel == Cardinality(StateLabelsOf(labels)) <= 1

C33_NotificationOnly == BothCompleted => AtMostOneNotification

C33_NoFailure ==
    (BothCompleted /\ \A k \in DOMAIN hist : \A j \in DOMAIN hist[k].calls :
         hist[k].calls[j].ok) => AtMostOneNotification /\ AtMostOneStateLabel

\* A RemoveLabel request failed and the label it named is still on the issue.
RemovalLost ==
    \E k \in DOMAIN hist : \E j \in DOMAIN hist[k].calls :
        /\ hist[k].calls[j].call = "RemoveLabel"
        /\ ~hist[k].calls[j].ok
        /\ hist[k].calls[j].arg \in labels

BotLabeledBeforeGrace(labelName) ==
    \E k \in DOMAIN events :
        /\ IsBotLabeled(events[k], labelName)
        /\ events[k].createdAt + GracePeriodOf(labelName) < now

\* ---- C34: first detection grants a full grace period.  The grace periods
\* being positive, the engine decides removeIncompleteLabels only for an
\* object that carries the incomplete-labels label and whose history holds an
\* application of it by the bot older than the label grace period, and
\* removeUnapproved only for one that carries the needs-approval label with
\* an application by the bot older than the approval grace period; without
\* the label the branch never decides NeedsRemoval, whatever the history.
C34_FirstDetectionGrantsGrace ==
    (JustDecided /\ LabelGracePeriod > 0 /\ ApprovalGracePeriod > 0)
    => /\ "removeIncompleteLabels" \in icc.enabledSections
              => /\ milestoneLabelsIncompleteLabel \in e.labels
                 /\ BotLabeledBeforeGrace(milestoneLabelsIncompleteLabel)
       /\ "removeUnapproved" \in icc.enabledSections
              => /\ milestoneNeedsApprovalLabel \in e.labels
                 /\ BotLabeledBeforeGrace(milestoneNeedsApprovalLabel)
       /\ (~TriadComplete /\ milestoneLabelsIncompleteLabel \notin e.labels)
              => icc.state = milestoneNeedsLabeling
       /\ (Unapproved /\ milestoneNeedsApprovalLabel \notin e.labels)
              => icc.state = milestoneNeedsApproval

\* C34's case: an unapproved non-blocker that does not carry the
\* needs-approval label although the bot applied it longer ago than the
\* approval grace period; the engine decides NeedsApproval.
C34_Witness ==
    /\ JustDecided /\ Unapproved
    /\ blockerLabel \notin e.labels
    /\ milestoneNeedsApprovalLabel \notin e.labels
    /\ BotLabeledBeforeGrace(milestoneNeedsApprovalLabel)
    /\ icc.state = milestoneNeedsApproval
    /\ icc.removeAfter.known /\ icc.removeAfter.value = ApprovalGracePeriod

\* The run at its turn has decided: icc and change are its decision.
Decided == pc # "idle" \/ (RunFinished /\ LastRun.decided)

WarningStates == {milestoneNeedsLabeling, milestoneNeedsApproval, milestoneNeedsAttention}

\* The run found, in the comments it listed, a notification structurally
\* equal to the one it computed.
FoundEqualNotification ==
    /\ comment # 0
    /\ NotificationEqual(ParseNotification(pre.comments[comment].body), change.notification)

\* ---- C35: the refresh interval applies only to warning states.  The
\* change of a decision carries the warning interval as its comment interval
\* iff the decided state is NeedsLabeling, NeedsApproval or NeedsAttention;
\* for Current and NeedsRemoval it carries none, and a run that finds an
\* equal notification then neither deletes nor creates a comment, however
\* old the notification is.
C35_RefreshInterval ==
    Decided
    => /\ change.commentInterval.known <=> icc.state \in WarningStates
       /\ change.commentInterval.known => change.commentInterval.value = WarningInterval
       /\ (icc.state \in {milestoneCurrent, milestoneNeedsRemoval} /\ FoundEqualNotification)
              => /\ CountCalls(calls, "DeleteComment") = 0
                 /\ CountCalls(calls, "CreateComment") = 0

\* C35's case: a run that decided NeedsRemoval found the equal notification
\* of an earlier run, older than the warning interval, and went on to clear
\* the milestone without touching the comment.
C35_Witness ==
    /\ pc = "clearMilestone"
    /\ icc.state = milestoneNeedsRemoval
    /\ FoundEqualNotification
    /\ now - pre.comments[comment].createdAt >= WarningInterval
    /\ comments = pre.comments
    /\ calls = <<>>

\* Run k decided NeedsRemoval and completed without error, having cleared
\* the milestone.
RemovalCompleted(k) ==
    /\ hist[k].decided /\ ~hist[k].err
    /\ hist[k].state = milestoneNeedsRemoval
    /\ \E j \in DOMAIN hist[k].calls :
           hist[k].calls[j].call = "ClearMilestone" /\ hist[k].calls[j].ok

Removed == ~milestone /\ \E k \in DOMAIN hist : RemovalCompleted(k)

\* ---- C36: removal is absorbing.  After a run that decided NeedsRemoval
\* completed without error and cleared the milestone, and while the
\* milestone is unset, every later invocation ends at the filter of
\* HandleIssue: it decides nothing, reads nothing from the tracker, calls
\* nothing and returns no error, and no step changes the tracker.
C36_RemovalAbsorbing ==
    /\ [](Removed
          => /\ pc = "idle"
             /\ \A k \in DOMAIN hist : RemovalCompleted(k)
                    => \A j \in (k + 1)..Len(hist) :
                           /\ ~hist[j].decided /\ ~hist[j].err
                           /\ hist[j].reads = {}
                           /\ hist[j].calls = <<>>
                           /\ hist[j].postLabels = hist[j].preLabels)
    /\ [][Removed => tracker' = tracker]_vars

\* C36's case: the first run removed the issue from the milestone (removed
\* label set, notification posted, milestone cleared); a second invocation
\* came later and has ended.
C36_Witness ==
    /\ Len(hist) = 2 /\ pc = "idle"
    /\ RemovalCompleted(1)
    /\ \E j \in DOMAIN hist[1].calls :
           hist[1].calls[j].call = "CreateComment" /\ hist[1].calls[j].ok
    /\ milestoneRemovedLabel \in labels
    /\ ~milestone
    /\ hist[2].t > hist[1].t
    /\ hist[2].calls = <<>>

\* ---- C37: exactly one state per decision, consistent with the enabled
\* sections.  Every decision of issueChangeConfig has one of the five
\* states; it is NeedsRemoval iff a section whose name begins with 'remove'
\* is enabled, NeedsLabeling iff warnIncompleteLabels is enabled,
\* NeedsApproval iff warnUnapproved is enabled, and summarizeLabels is
\* enabled iff the label triad is complete, whatever the state is.
C37_StateMatchesSections ==
    JustDecided
    => /\ icc.state \in {milestoneCurrent, milestoneNeedsLabeling, milestoneNeedsApproval,
                         milestoneNeedsAttention, milestoneNeedsRemoval}
       /\ icc.state = milestoneNeedsRemoval <=> icc.enabledSections \cap RemoveSections # {}
       /\ icc.state = milestoneNeedsLabeling <=> "warnIncompleteLabels" \in icc.enabledSections
       /\ icc.state = milestoneNeedsApproval <=> "warnUnapproved" \in icc.enabledSections
       /\ "summarizeLabels" \in icc.enabledSections <=> TriadComplete

\* C37's case: an approved non-blocker with a complete triad in freeze is
\* NeedsRemoval with its labels summarized and removeNonBlocker enabled.
C37_Witness ==
    /\ JustDecided /\ TriadComplete
    /\ mode = milestoneModeFreeze
    /\ icc.state = milestoneNeedsRemoval
    /\ icc.enabledSections = {"summarizeLabels", "removeNonBlocker"}

\* The labels of LabelPool whose name starts with 'sig/'.
SigPrefixed == {"sig/foo", "sig/bar"}

\* The messages of checkLabels, their label names in sorted order.
KindError ==
    LabelError("kind",
               <<"BQ", "kind", "/", "bug", "BQ", ", ",
                 "BQ", "kind", "/", "cleanup", "BQ", " or ",
                 "BQ", "kind", "/", "feature", "BQ">>)

PriorityError ==
    LabelError("priority",
               <<"BQ", "priority", "/", "critical-urgent", "BQ", ", ",
                 "BQ", "priority", "/", "important-longterm", "BQ", " or ",
                 "BQ", "priority", "/", "important-soon", "BQ">>)

SigOwnerError == LabelError("sig owner", <<"BQ", "sig", "/", "BQ">>)

\* The requirements the listed labels do not meet.
Unmet ==
    (IF Cardinality(labels \cap kindMap) = 1 THEN {} ELSE {"kind"})
    \cup (IF Cardinality(labels \cap priorityMap) = 1 THEN {} ELSE {"priority"})
    \cup (IF labels \cap SigPrefixed # {} THEN {} ELSE {"sig owner"})

\* ---- C38: sig-owner requirement and error ordering.  sigLabelNames returns
\* the listed labels whose name starts with 'sig/', all of them and no other;
\* the sig-owner requirement is unmet iff that list is empty; the errors of
\* checkLabels are those of the unmet requirements in the order kind,
\* priority, sig owner, each message listing its label names in sorted
\* order, whatever the order of the issue's labels and of the maps' keys.
C38_SigOwnerAndErrorOrder ==
    checked # NotChecked
    => /\ checked.sigLabels = SelectSeq(labelsListed, LAMBDA l : l \in SigPrefixed)
       /\ (\E i \in DOMAIN checked.labelErrors :
               checked.labelErrors[i].requirement = "sig owner")
              <=> checked.sigLabels = <<>>
       /\ checked.labelErrors =
              SelectSeq(<<KindError, PriorityError, SigOwnerError>>,
                        LAMBDA m : m.requirement \in Unmet)

\* C38's case: two sig labels listed around a label that holds 'sig/' past
\* its start, no kind and no priority label, and both maps iterated out of
\* order.
C38_Witness ==
    /\ checked # NotChecked
    /\ labelsListed = <<"sig/foo", "area/sig/foo", "sig/bar">>
    /\ iteration.kind = <<"kind/feature", "kind/cleanup", "kind/bug">>
    /\ iteration.priority[1] = "priority/important-soon"
    /\ checked.sigLabels = <<"sig/foo", "sig/bar">>
    /\ checked.labelErrors = <<KindError, PriorityError>>

Body == rawComment.body

\* The position of the "]" that closes the token the body starts with, 0
\* when the body starts with no token: "[", then one or more characters that
\* are neither white space nor "]", then "]".
TokenEnd ==
    LET ends == {k \in 3..Len(Body) :
                    /\ Body[1] = "["
                    /\ Body[k] = "]"
                    /\ \A i \in 2..(k - 1) : Body[i] \notin Whitespace \cup {"]"}}
    IN  IF ends = {} THEN 0 ELSE CHOOSE k \in ends : TRUE

\* The first newline after the token, Len(Body) + 1 on a body of one line.
FirstLineEnd == Find(Body, TokenEnd + 1, {"\n"})

\* The first position after the token at which a blank line starts (two
\* newlines in a row), 0 when the body has none.
FirstBlankLine ==
    LET blank == {i \in (TokenEnd + 1)..(Len(Body) - 1) : Body[i] = "\n" /\ Body[i + 1] = "\n"}
    IN  IF blank = {} THEN 0 ELSE CHOOSE i \in blank : \A j \in blank : i <= j

Parsed == parsed # NotParsed

ReturnsNilWithoutToken ==
    parsed.isNil <=> (rawComment.isNil \/ rawComment.bodyIsNil \/ TokenEnd = 0)

ArgumentsAreFirstLine ==
    ~parsed.isNil =>
        /\ parsed.Name = ToUpperOf(SubSeq(Body, 2, TokenEnd - 1))
        /\ parsed.Arguments = TrimSpaceOf(SubSeq(Body, TokenEnd + 1, FirstLineEnd - 1))

\* ---- C39 (the claim as stated): ParseNotification returns nil for a nil
\* comment, a nil body and a body that does not start with a token [NAME],
\* and a notification otherwise; the arguments are the rest of the first
\* line; the context is empty when the body has no blank line, and else
\* everything after the first blank line.
C39_ParseEdgeCases ==
    Parsed
    => /\ ReturnsNilWithoutToken
       /\ ArgumentsAreFirstLine
       /\ ~parsed.isNil =>
              parsed.Context = IF FirstBlankLine = 0 THEN <<>>
                               ELSE TrimSpaceOf(SubSeq(Body, FirstBlankLine + 2, Len(Body)))

\* C39 (amended): as stated, but the context is what follows the blank line
\* only when the blank line comes right after the first line; when the first
\* line is followed by a single newline the context is empty, whatever
\* comes later.
C39_ParseEdgeCasesFirstLine ==
    Parsed
    => /\ ReturnsNilWithoutToken
       /\ ArgumentsAreFirstLine
       /\ ~parsed.isNil =>
              parsed.Context = IF FirstBlankLine # 0 /\ FirstBlankLine = FirstLineEnd
                               THEN TrimSpaceOf(SubSeq(Body, FirstBlankLine + 2, Len(Body)))
                               ELSE <<>>

\* C39's case: a body whose first line is followed by a second line, a blank
\* line and more text; it parses with an empty context.
C39_Witness ==
    /\ Parsed /\ ~parsed.isNil
    /\ Body = <<"[", "a", "]", "\n", "x", "\n", "\n", "x">>
    /\ parsed.Name = <<"A">>
    /\ parsed.Arguments = <<>>
    /\ parsed.Context = <<>>

\* A body with a context of several lines.
C39_ContextOfSeveralLines ==
    /\ Parsed /\ ~parsed.isNil
    /\ Body = <<"[", "a", "]", "\n", "\n", "x", "\n", "x">>
    /\ parsed.Arguments = <<>>
    /\ parsed.Context = <<"x", "\n", "x">>
====
